---- MODULE Spec2Model ----
(***************************************************************************)
(* BeeLocate (src/app.py): the TTL caches, the three data sources          *)
(* (land cover, weather, elevation), the scoring engine and the /analyze   *)
(* and /download_report handlers, as a state machine.                      *)
(*                                                                         *)
(* Units.  Latitudes and longitudes are integers in micro-degrees          *)
(* (41.000004 deg = 41000004).  Elevation samples of the elevation service *)
(* are integers in 1e-4 metres (120.7 m = 1207000).  Radii are whole       *)
(* metres.  Wind speed is whole km/h, humidity whole percent, time whole   *)
(* seconds.  Floating-point formulas of the source are computed exactly,   *)
(* in fixed point of 20 decimals; where the source's float rounding alone  *)
(* decides a result (the weighted total, the slope, the aspect or a       *)
(* distance within the rounding error of a .5 tie; a haversine within it   *)
(* of 1) the model allows every result the float can give.                 *)
(***************************************************************************)
EXTENDS Integers, Sequences, FiniteSets, TLC

VARIABLES
    now,            \* time.time(), seconds
    CACHE_OSM,      \* TTLCache._store of the land-cover cache: key -> CacheItem
    CACHE_WEATHER,  \* TTLCache._store of the weather cache
    CACHE_ELEV,     \* TTLCache._store of the elevation cache
    pc,             \* position of the request thread that is running
    route,          \* the route of its request: "analyze" or "report"
    payload,        \* the JSON body of the request
    req,            \* (lat, lng, radius) returned by parse_lat_lng_radius
    elements,       \* result of get_osm_data
    weather,        \* current-conditions record returned by get_full_weather
    humidity,       \* humidity returned by get_full_weather
    topo,           \* (slope, aspect, elevation) of calculate_real_topography
    item,           \* the CacheItem local to its TTLCache.get or TTLCache.set
    res,            \* the HTTP response of analyze or download_report
    contacted,      \* per source: the external calls of this request, in order
    outcome,        \* per source: "none", "hit", "ok" (fetched) or "failed",
                    \* and history: the fills live at its cache lookup and
                    \* the item its set assigned
    nreq,           \* number of the request being served, in order of arrival
    fills,          \* history: the cache fills, see Fill
    lastSet,        \* history: key -> the most recent set(key, value) and its time
    lastOp,         \* history: the cache operation just performed and its result
    upstream,       \* the answer a service holds, where one is fixed in advance
    threads,        \* per request thread: the TTLCache call it is executing
    suspended       \* the local state of the request thread that is not running

vars == <<now, CACHE_OSM, CACHE_WEATHER, CACHE_ELEV, pc, route, payload, req,
          elements, weather, humidity, topo, item, res, contacted, outcome, nreq,
          fills, lastSet, lastOp, upstream, threads, suspended>>

---------------------------------------------------------------------------
(* JSON scalars as they reach float()/int()/`or`: a number, null, or a     *)
(* non-empty string that is not a number (such as "fast").                 *)

Num(n) == [t |-> "num", n |-> n]

Null == [t |-> "null", n |-> 0]

NonNumeric == [t |-> "str", n |-> 0]

\* Python truthiness of a JSON scalar: None and 0 are falsy.
Truthy(v) == (v.t = "num" /\ v.n # 0) \/ v.t = "str"

\* `v or 0`
OrZero(v) == IF Truthy(v) THEN v ELSE Num(0)

\* float(v) / int(v) raise ValueError or TypeError unless v is a number.
Raises(v) == v.t # "num"

---------------------------------------------------------------------------
(* Small helpers (src/app.py 63-85).                                       *)

Min(a, b) == IF a <= b THEN a ELSE b

Max(a, b) == IF a >= b THEN a ELSE b

Abs(a) == IF a < 0 THEN -a ELSE a

clamp(x, lo, hi) == Max(lo, Min(hi, x))

\* round(n / d) for d > 0, as Python's round(): ties go to the even
\* integer.
RoundHalfEven(n, d) ==
    LET q == n \div d
        r == n % d
    IN  IF 2 * r < d THEN q
        ELSE IF 2 * r > d THEN q + 1
        ELSE IF q % 2 = 0 THEN q ELSE q + 1

---------------------------------------------------------------------------
(* Exact arithmetic for the float computations of src/app.py.  math.sin,   *)
(* math.cos, the haversine and the gradients are computed here on decimal  *)
(* fixed-point numbers of 20 fractional digits, far below the steps (a     *)
(* centimetre, a percent, a degree) at which the program rounds them.      *)

Base == 10000

\* A natural number as the sequence of its base-10000 digits, least first.
RECURSIVE BigOfInt(_)
BigOfInt(n) == IF n < Base THEN <<n>> ELSE <<n % Base>> \o BigOfInt(n \div Base)

Limb(a, i) == IF i <= Len(a) THEN a[i] ELSE 0

\* Digits that may exceed the base, brought back below it from the least on.
RECURSIVE BigCarry(_, _, _)
BigCarry(a, i, carry) ==
    IF i > Len(a)
    THEN IF carry = 0 THEN <<>> ELSE BigOfInt(carry)
    ELSE LET s == a[i] + carry
         IN  <<s % Base>> \o BigCarry(a, i + 1, s \div Base)

BigAdd(a, b) ==
    BigCarry([i \in 1..Max(Len(a), Len(b)) |-> Limb(a, i) + Limb(b, i)], 1, 0)

\* a - b for a >= b.
RECURSIVE BigBorrow(_, _, _, _)
BigBorrow(a, b, i, borrow) ==
    IF i > Len(a) THEN <<>>
    ELSE LET d == a[i] - Limb(b, i) - borrow
         IN  IF d < 0 THEN <<d + Base>> \o BigBorrow(a, b, i + 1, 1)
             ELSE <<d>> \o BigBorrow(a, b, i + 1, 0)

BigSub(a, b) == BigBorrow(a, b, 1, 0)

\* a compared with b: -1, 0 or 1.
RECURSIVE BigCmpFrom(_, _, _)
BigCmpFrom(a, b, i) ==
    IF i = 0 THEN 0
    ELSE IF Limb(a, i) > Limb(b, i) THEN 1
    ELSE IF Limb(a, i) < Limb(b, i) THEN -1
    ELSE BigCmpFrom(a, b, i - 1)

BigCmp(a, b) == BigCmpFrom(a, b, Max(Len(a), Len(b)))

\* The sum of a[i] * b[k + 1 - i] over the digits present.
RECURSIVE BigConv(_, _, _, _)
BigConv(a, b, k, i) ==
    IF i > Len(a) \/ i > k THEN 0
    ELSE (IF k + 1 - i <= Len(b) THEN a[i] * b[k + 1 - i] ELSE 0)
         + BigConv(a, b, k, i + 1)

BigMul(a, b) ==
    BigCarry([k \in 1..(Len(a) + Len(b) - 1) |-> BigConv(a, b, k, 1)], 1, 0)

\* a \div n for 1 <= n <= 200000, from the greatest digit on.
RECURSIVE BigDivFrom(_, _, _, _)
BigDivFrom(a, n, i, rem) ==
    IF i = 0 THEN <<>>
    ELSE BigDivFrom(a, n, i - 1, (rem * Base + a[i]) % n)
         \o <<(rem * Base + a[i]) \div n>>

BigDivInt(a, n) == BigDivFrom(a, n, Len(a), 0)

\* a \div 10000^k.
BigDrop(a, k) == IF Len(a) <= k THEN <<0>> ELSE SubSeq(a, k + 1, Len(a))

\* a * 10000^k.
BigShift(a, k) == [i \in 1..k |-> 0] \o a

RECURSIVE BigToIntFrom(_, _)
BigToIntFrom(a, i) == IF i > Len(a) THEN 0 ELSE a[i] + Base * BigToIntFrom(a, i + 1)

BigToInt(a) == BigToIntFrom(a, 1)

BigIsZero(a) == \A i \in 1..Len(a) : a[i] = 0

\* a without leading zero digits.
BigTrim(a) ==
    IF BigIsZero(a) THEN <<0>>
    ELSE SubSeq(a, 1, CHOOSE i \in 1..Len(a) :
                          a[i] # 0 /\ \A j \in (i + 1)..Len(a) : a[j] = 0)

\* A real x >= 0 is held as the natural number x * 10^20: Frac digits of
\* base 10000 after the point.
Frac == 5

One == <<0, 0, 0, 0, 0, 1>>

\* An integer as a fixed-point number.
FixOfInt(n) == BigShift(BigOfInt(n), Frac)

FixMul(a, b) == BigTrim(BigDrop(BigMul(a, b), Frac))

\* pi / 2 and pi / 4.
PiHalf == <<1923, 8966, 6794, 9632, 5707, 1>>

PiQuarter == <<961, 4483, 3397, 9816, 7853>>

\* pi / 360000000 * 10^28: the radians of half a micro-degree.
RadPerHalfMicroDeg == <<8846, 1647, 5997, 6462, 8726>>

\* math.radians of h half micro-degrees.
Radians(h) == BigTrim(BigDrop(BigMul(BigOfInt(h), RadPerHalfMicroDeg), 2))

\* The alternating Taylor series term - term * x2 / (n (n + 1)) + ...,
\* summed until its terms vanish; positive and negative terms are added
\* apart.
RECURSIVE Series(_, _, _, _, _, _)
Series(term, x2, n, pos, neg, sign) ==
    IF BigIsZero(term) THEN BigSub(pos, neg)
    ELSE Series(BigTrim(BigDivInt(FixMul(term, x2), n * (n + 1))), x2, n + 2,
                IF sign = 1 THEN BigAdd(pos, term) ELSE pos,
                IF sign = -1 THEN BigAdd(neg, term) ELSE neg,
                -sign)

\* math.sin(x) and math.cos(x) for 0 <= x <= pi / 4.
SinSeries(x) == Series(x, FixMul(x, x), 2, <<0>>, <<0>>, 1)

CosSeries(x) == Series(One, FixMul(x, x), 1, <<0>>, <<0>>, 1)

\* math.sin(x) for 0 <= x <= pi / 2.
SinRad(x) ==
    IF BigCmp(x, PiQuarter) <= 0 THEN SinSeries(x)
    ELSE CosSeries(BigSub(PiHalf, x))

\* sin of h half micro-degrees, 0 <= h <= 360000000 (180 degrees).
SinHalfMicro(h) ==
    LET r == IF h > 180000000 THEN 360000000 - h ELSE h
    IN  IF r <= 90000000 THEN SinSeries(Radians(r))
        ELSE CosSeries(Radians(180000000 - r))

\* math.cos(math.radians(lat)) for a latitude in micro-degrees, -90..90
\* degrees: the sine of the colatitude.
CosLat(lat) == SinHalfMicro(180000000 - 2 * Abs(lat))

\* The largest s in lo..hi with s * s <= t.
RECURSIVE ISqrtIn(_, _, _)
ISqrtIn(t, lo, hi) ==
    IF lo = hi THEN lo
    ELSE LET mid == (lo + hi + 1) \div 2
         IN  IF mid * mid <= t THEN ISqrtIn(t, mid, hi) ELSE ISqrtIn(t, lo, mid - 1)

---------------------------------------------------------------------------
(* get_distance_m (src/app.py 66-73).  The float it returns is held as    *)
(* the whole number of steps of 1 / u metre nearest to it, u = 1 (metres,  *)
(* as line 352 rounds it) up to u = 100 (centimetres).  The formula is      *)
(* evaluated in exact arithmetic and the rounding errors of the doubles    *)
(* are carried as bounds: where they decide, every step the float can      *)
(* round to is a result.  Between nearly antipodal points a is close to 1, *)
(* the arc moves by decimetres with the last bit of a, and a double a      *)
(* above 1 makes math.sqrt(1 - a) raise ValueError.  Between points a few  *)
(* metres apart a is of the order of 10^-14, so a is held with twice the   *)
(* digits, as the natural number a * 10^40.                                *)

\* 1 * 10^40.
OneWide == BigShift(<<1>>, 2 * Frac)

\* a = sin(dphi / 2)**2 + cos(phi1) * cos(phi2) * sin(dlambda / 2)**2,
\* as a * 10^40: the squares of the sines are not cut.
Haversine(lat1, lon1, lat2, lon2) ==
    LET s1 == SinHalfMicro(Abs(lat2 - lat1))
        s2 == SinHalfMicro(Abs(lon2 - lon1))
    IN  IF BigIsZero(s2) THEN BigMul(s1, s1)
        ELSE BigAdd(BigMul(s1, s1),
                    BigDrop(BigMul(FixMul(CosLat(lat1), CosLat(lat2)),
                                   BigMul(s2, s2)), Frac))

\* R = 6371000.0 metres, in kilometres; half the circumference pi * R in
\* metres, rounded up.
EarthRadiusKm == 6371

HalfTurnM == 20015087

\* Bounds of the rounding errors of the doubles, as fixed-point numbers:
\* 2^-50, the relative error of a; 2 * 10^-8 metres / (2 R) radians, the
\* error of the half angle, from the doubles of the coordinates (half an
\* ulp of a longitude of 180 degrees is 1.6 * 10^-9 metres on the ground)
\* and from math.atan2 and the multiplications.
HaversineSlack == <<8818, 8>>

AngleSlack == <<6960, 15>>

\* The bound of the double a (as a * 10^40) from above (dir = 1) or from
\* below (dir = -1).
HaversineBound(a, dir) ==
    LET e == BigTrim(BigDrop(BigMul(a, HaversineSlack), Frac))
    IN  IF dir > 0 THEN BigAdd(a, e) ELSE BigTrim(BigSub(a, e))

\* math.sqrt(1 - a) can raise: the double a can be above 1.
HaversineAboveOne(a) == BigCmp(HaversineBound(a, 1), OneWide) > 0

\* (m + 0.5) / u metres / (2 R) in radians: the half angle of an arc of
\* m + 0.5 steps.
HalfAngle(m, u) ==
    BigDivInt(BigDivInt(BigDivInt(
        BigShift(BigAdd(BigMul(BigOfInt(m), <<2>>), <<1>>), Frac),
        EarthRadiusKm), 1000 * u), 4)

\* 2 * R * atan2(sqrt(a), sqrt(1 - a)) >= (m + 0.5) / u metres: the arc is
\* 2 * R * asin(sqrt(a)), so a >= sin((m + 0.5) / u / (2 R))**2.  With
\* dir = 1 the float can reach the half step above m, with dir = -1 it is
\* sure to.
ArcBeyond(a, m, u, dir) ==
    LET h == HalfAngle(m, u)
        x == IF dir > 0 THEN BigSub(h, AngleSlack) ELSE BigAdd(h, AngleSlack)
    IN  IF BigCmp(x, PiHalf) > 0 THEN FALSE
        ELSE LET s == SinRad(x)
             IN  BigCmp(HaversineBound(a, dir), BigMul(s, s)) >= 0

\* The least m in lo..hi with the arc not surely beyond m + 0.5 steps: the
\* least step the arc can round to.
RECURSIVE ArcSearch(_, _, _, _)
ArcSearch(a, lo, hi, u) ==
    IF lo >= hi THEN lo
    ELSE LET mid == lo + (hi - lo) \div 2
         IN  IF ArcBeyond(a, mid, u, -1) THEN ArcSearch(a, mid + 1, hi, u)
             ELSE ArcSearch(a, lo, mid, u)

\* The greatest step the arc can round to, from m on.
RECURSIVE ArcUp(_, _, _)
ArcUp(a, m, u) ==
    IF m < HalfTurnM * u /\ ArcBeyond(a, m, u, 1) THEN ArcUp(a, m + 1, u) ELSE m

\* 100^k as a natural number.
Pow100(k) == BigShift(IF k % 2 = 1 THEN <<100>> ELSE <<1>>, k \div 2)

\* Where the search starts, for a as a * 10^20 (cut to these digits): with
\* s the integer square root of its two leading digits and k the digits
\* left out, sqrt(a) lies in
\* [s, s + 1] * 100^k / 10^10 and the arc in 2 R sqrt(a) * [1, pi / 2].
\* For sqrt(a) <= 0.01 the arc is at most 2 R sqrt(a) * 1.00002.
ArcBounds(a, u) ==
    LET n  == Len(a)
        k  == IF n <= 2 THEN 0 ELSE n - 2
        t  == IF n <= 2 THEN BigToInt(a) ELSE a[n] * Base + a[n - 1]
        s  == ISqrtIn(t, 0, Base - 1)
        lo == BigDivInt(BigDivInt(
                  BigMul(BigMul(BigOfInt(2 * EarthRadiusKm * s), BigOfInt(u)),
                         Pow100(k)), 100000), 100)
        w  == BigMul(BigMul(BigOfInt(2 * EarthRadiusKm * (s + 2)), BigOfInt(u)),
                     Pow100(k))
        up == IF k <= 2
              THEN BigAdd(BigDivInt(BigDivInt(w, 100000), 100), <<1>>)
              ELSE BigAdd(BigDivInt(BigDivInt(BigDivInt(
                              BigMul(w, BigOfInt(15708)), 100000), 100), 10000),
                          <<1>>)
    IN  <<BigToInt(lo),
          IF BigCmp(up, BigOfInt(HalfTurnM * u)) > 0 THEN HalfTurnM * u
          ELSE BigToInt(up)>>

\* The steps of 1 / u metre the arc of the haversine a can round to: one,
\* or two where the rounding errors decide.
Arc(a, u) ==
    LET b  == ArcBounds(BigTrim(BigDrop(HaversineBound(a, -1), Frac)), u)
        lo == ArcSearch(a, IF b[1] > 0 THEN b[1] - 1 ELSE 0, b[2], u)
    IN  lo .. ArcUp(a, lo, u)

\* The values get_distance_m(lat1, lon1, lat2, lon2) can return, in steps
\* of 1 / u metre, for coordinates in micro-degrees.
get_distance(lat1, lon1, lat2, lon2, u) ==
    Arc(BigTrim(Haversine(lat1, lon1, lat2, lon2)), u)

\* get_distance_m(lat1, lon1, lat2, lon2) can raise ValueError (line 73).
get_distance_raises(lat1, lon1, lat2, lon2) ==
    HaversineAboveOne(BigTrim(Haversine(lat1, lon1, lat2, lon2)))

\* meters_per_deg_lat(): 111320.0 metres per degree.
meters_per_deg_lat == FixOfInt(111320)

\* meters_per_deg_lon(lat) = 111320.0 * cos(lat), metres per degree.
meters_per_deg_lon(lat) == BigMul(CosLat(lat), BigOfInt(111320))

CompassTr == <<"Kuzey", "KD", "Dogu", "GD", "Guney", "GB", "Bati", "KB">>

\* arr[int((deg / 45) % 8)] for an integer deg >= 0.
get_compass_direction_tr(deg) == CompassTr[((deg \div 45) % 8) + 1]

---------------------------------------------------------------------------
(* TTLCache (src/app.py 91-115).  A store is a function from the keys       *)
(* present to CacheItem records.                                           *)

CacheItem(value, expires_at) == [value |-> value, expires_at |-> expires_at]

EmptyStore == [k \in {} |-> CacheItem(0, 0)]

OSM_TTL == 600

WEATHER_TTL == 300

ELEV_TTL == 3600

\* self._store.pop(key, None)
StorePop(store, key) == [k \in DOMAIN store \ {key} |-> store[k]]

\* A get that leaves an expired entry in the store.
TTLCache_get_keep(store, key, t) == store

\* The store after get(key) at time t: an expired entry is removed.
TTLCache_get_store(store, key, t) ==
    IF key \in DOMAIN store /\ t > store[key].expires_at
    THEN StorePop(store, key)
    ELSE store

\* Whether get(key) at time t returns the stored value (otherwise None).
TTLCache_get_found(store, key, t) ==
    key \in DOMAIN store /\ ~(t > store[key].expires_at)

\* The value get(key) returns when TTLCache_get_found.
TTLCache_get_value(store, key) == store[key].value

\* The store after set(key, value) at time t.
TTLCache_set(store, ttl, key, value, t) ==
    [k \in DOMAIN store \cup {key} |->
        IF k = key THEN CacheItem(value, t + ttl) ELSE store[k]]

---------------------------------------------------------------------------
(* Cache keys (src/app.py 149, 194, 242).                                   *)

\* The number of binary places e at which the double nearest to m / 10^6
\* (m >= 1) has its 53-bit significand: 2^52 <= (m / 10^6) * 2^e < 2^53.
BinaryPlaces(m) ==
    IF m >= 1000000
    THEN 52 - (CHOOSE j \in 0..7 : 1000000 * 2^j <= m /\ m < 2000000 * 2^j)
    ELSE LET c == (1000000 + m - 1) \div m
         IN  52 + (CHOOSE k \in 1..20 : 2^(k - 1) < c /\ c <= 2^k)

\* (r * 2^e) modulo 2 * 10^6, for r < 2 * 10^6.
RECURSIVE DoubleMod(_, _)
DoubleMod(r, e) ==
    IF e >= 10 THEN DoubleMod((1024 * r) % 2000000, e - 10)
    ELSE (2^e * r) % 2000000

\* float(x) of the decimal m / 10^6 against the decimal itself: 1 when the
\* double is above it, -1 when it is below, 0 when m / 10^6 is a double.
\* With M = m * 2^e, the significand is M / 10^6 rounded to the nearest
\* integer, to the even one on a tie.
FloatSide(m) ==
    LET e  == BinaryPlaces(m)
        r2 == DoubleMod(m % 2000000, e)
        r  == r2 % 1000000
    IN  IF r = 0 THEN 0
        ELSE IF r > 500000 \/ (r = 500000 /\ r2 >= 1000000) THEN 1
        ELSE -1

\* f"{x:.5f}" of the float x = m / 10^6, m >= 0: the digits of the double
\* rounded to five decimals.  When the sixth decimal of m is 5 the double
\* decides: above the decimal it rounds up, below it rounds down, and a
\* double equal to the decimal rounds to the even fifth digit.
Round5(m) ==
    LET n == m \div 10
    IN  IF m % 10 # 5 THEN (m + 5) \div 10
        ELSE IF FloatSide(m) = 1 THEN n + 1
        ELSE IF FloatSide(m) = -1 THEN n
        ELSE IF n % 2 = 1 THEN n + 1 ELSE n

\* f"{x:.5f}" of a coordinate x given in micro-degrees: the sign and the
\* digits.  (Python formats a negative value that rounds to zero as
\* "-0.00000".)
Fmt5(x) == <<x < 0, Round5(Abs(x))>>

OsmKey(lat, lng, radius) == <<"osm", Fmt5(lat), Fmt5(lng), radius>>

WxKey(lat, lng) == <<"wx", Fmt5(lat), Fmt5(lng)>>

ElevKey(lat, lng) == <<"elev", Fmt5(lat), Fmt5(lng)>>

---------------------------------------------------------------------------
(* calculate_score (src/app.py 298-445).                                   *)
(* A land feature is a record of the tags the scorer reads and its position *)
(* (`lat`/`lon`, JSON scalars; no `center`).  "" stands for an absent tag.  *)

Feature(landuse, natural, building, lat, lon) ==
    [landuse |-> landuse, natural |-> natural, building |-> building,
     lat |-> lat, lon |-> lon]

\* The flora points one element adds (the if/elif chain, lines 319-330).
FloraPoints(e) ==
    IF e.landuse = "forest" \/ e.natural = "wood" THEN 5
    ELSE IF e.landuse = "orchard" THEN 4
    ELSE IF e.natural \in {"scrub", "heath"} \/ e.landuse = "meadow" THEN 2
    ELSE IF e.landuse = "farm" THEN 1
    ELSE 0

\* The flora type one element adds to flora_types ("" for none).
FloraType(e) ==
    IF e.landuse = "forest" \/ e.natural = "wood" THEN "Orman"
    ELSE IF e.landuse = "orchard" THEN "Meyvelik"
    ELSE IF e.natural \in {"scrub", "heath"} \/ e.landuse = "meadow" THEN "Maki/Cayir"
    ELSE IF e.landuse = "farm" THEN "Tarim"
    ELSE ""

RECURSIVE SumFloraPoints(_)
SumFloraPoints(es) ==
    IF es = <<>> THEN 0 ELSE FloraPoints(Head(es)) + SumFloraPoints(Tail(es))

\* int(math.log1p(p) * 25.0) for p = 1..150.
Log1p25Table ==
    << 17, 27, 34, 40, 44, 48, 51, 54, 57, 59, 62, 64, 65, 67, 69, 70, 72, 73, 74, 76,
       77, 78, 79, 80, 81, 82, 83, 84, 85, 85, 86, 87, 88, 88, 89, 90, 90, 91, 92, 92,
       93, 94, 94, 95, 95, 96, 96, 97, 97, 98, 98, 99, 99, 100, 100, 101, 101, 101,
       102, 102, 103, 103, 103, 104, 104, 105, 105, 105, 106, 106, 106, 107, 107, 107,
       108, 108, 108, 109, 109, 109, 110, 110, 110, 111, 111, 111, 111, 112, 112, 112,
       113, 113, 113, 113, 114, 114, 114, 114, 115, 115, 115, 115, 116, 116, 116, 116,
       117, 117, 117, 117, 117, 118, 118, 118, 118, 119, 119, 119, 119, 119, 120, 120,
       120, 120, 120, 121, 121, 121, 121, 121, 122, 122, 122, 122, 122, 122, 123, 123,
       123, 123, 123, 124, 124, 124, 124, 124, 124, 125, 125, 125 >>

\* floor(math.log1p(p) * 25.0), p in 0..150.
Log1p25(p) == IF p = 0 THEN 0 ELSE Log1p25Table[p]

\* The flora score without its clamp.
FinalFloraUnclamped(flora_points) == Log1p25(flora_points)

\* final_flora = int(clamp(math.log1p(flora_points) * 25.0, 0, 100))
FinalFlora(flora_points) == clamp(Log1p25(flora_points), 0, 100)

\* w.get("lat") or center.lat, w.get("lon") or center.lon: None when the
\* value is missing or falsy (there is no center).
HasPosition(w) == Truthy(w.lat) /\ Truthy(w.lon)

\* The water elements whose distance is computed (lines 338-344).
WaterWithPosition(es) ==
    {i \in 1..Len(es) : es[i].natural = "water" /\ HasPosition(es[i])}

\* float(w_lat) or float(w_lon) raises for some water element.
WaterRaises(es) ==
    \E i \in WaterWithPosition(es) : Raises(es[i].lat) \/ Raises(es[i].lon)

\* The values of min_dist rounded to the metre, -1 for None: the least
\* distance rounded is the least of the rounded distances, each of them one
\* of the values get_distance_m can return.
MinDistM(lat, lng, es) ==
    LET ds == {get_distance(lat, lng, es[i].lat.n, es[i].lon.n, 1) :
                  i \in WaterWithPosition(es)}
    IN  IF ds = {} THEN {-1}
        ELSE {d \in UNION ds : \A s \in ds : \E x \in s : d <= x}

\* get_distance_m can raise for some water element (line 343).
DistanceRaises(lat, lng, es) ==
    \E i \in WaterWithPosition(es) :
        get_distance_raises(lat, lng, es[i].lat.n, es[i].lon.n)

\* d_water_m = int(round(min_dist)), 0 when min_dist is None.
DWaterM(min_m) == IF min_m < 0 THEN 0 ELSE min_m

\* A water score that is 0 without a water element.
WaterScoreNoDefault(min_m) ==
    IF min_m < 0 THEN 0
    ELSE LET d == IF min_m < 0 THEN 0 ELSE min_m
         IN  IF 99000 >= 100 * (900 + d) THEN 100
             ELSE RoundHalfEven(99000, 900 + d)

\* water_score: 10 without a water element, otherwise
\* int(round(clamp(110.0 / (1.0 + d_water_m / 900.0), 0, 100)))
\*   = round(clamp(99000 / (900 + d_water_m), 0, 100)).
WaterScore(min_m) ==
    IF min_m < 0 THEN 10
    ELSE LET d == DWaterM(min_m)
         IN  IF 99000 >= 100 * (900 + d) THEN 100
             ELSE RoundHalfEven(99000, 900 + d)

\* wind_score = int(round(clamp(100 - (wind - 12) * 6, 0, 100)))
WindScore(wind) == clamp(100 - (wind - 12) * 6, 0, 100)

\* hum_score: 100 in [40,70], else
\* int(round(clamp(100 - abs(humidity - 55) * 2.2, 0, 100)))
HumScore(h) ==
    IF 40 <= h /\ h <= 70 THEN 100
    ELSE RoundHalfEven(clamp(1000 - Abs(h - 55) * 22, 0, 1000), 10)

\* slope_score (lines 371-378)
SlopeScore(slope) ==
    IF 2 <= slope /\ slope <= 10 THEN 100
    ELSE IF slope < 2 THEN 70
    ELSE IF slope <= 20 THEN 60
    ELSE clamp(60 - (slope - 20) * 2, 5, 60)

\* aspect_score (line 381)
AspectScore(aspect) == IF 135 <= aspect /\ aspect <= 225 THEN 100 ELSE 65

\* buildings: elements with a building tag (line 384)
Buildings(es) == Cardinality({i \in 1..Len(es) : es[i].building})

\* math.pi, in 20 decimals.
Pi == BigMul(PiHalf, <<2>>)

\* 100 - b_density * 3.5 >= k + 0.5, with b_density = buildings / (pi *
\* (radius / 1000) ** 2): load <= (199 - 2 k) * area for
\* load = 7 * 10^6 * buildings and area = pi * radius^2.
PressureBeyond(load, area, k) ==
    BigCmp(load, BigMul(BigOfInt(199 - 2 * k), area)) <= 0

\* The least k in lo..hi with 100 - b_density * 3.5 below k + 0.5.
RECURSIVE PressureSearch(_, _, _, _)
PressureSearch(load, area, lo, hi) ==
    IF lo >= hi THEN lo
    ELSE LET mid == (lo + hi) \div 2
         IN  IF PressureBeyond(load, area, mid)
             THEN PressureSearch(load, area, mid + 1, hi)
             ELSE PressureSearch(load, area, lo, mid)

\* pressure_score = int(round(clamp(100 - b_density * 3.5, 0, 100))) with
\* b_density = buildings / (pi * (radius / 1000) ** 2), radius > 0; 100
\* without a building.
PressureScore(buildings, radius) ==
    IF buildings = 0 THEN 100
    ELSE PressureSearch(
             BigShift(BigMul(BigOfInt(buildings), BigOfInt(7000000)), Frac),
             BigMul(BigOfInt(radius * radius), Pi), 0, 100)

\* Ten times a total that weighs the seven categories equally.
Total10Flat(b) ==
    (10 * (b.flora + b.water + b.wind + b.humidity + b.slope + b.aspect + b.pressure))
        \div 7

\* Ten times the weighted total (weights 0.30, 0.20, 0.10 x 5).
Total10(b) ==
    3 * b.flora + 2 * b.water + b.wind + b.humidity + b.slope + b.aspect + b.pressure

\* total_int = int(round(clamp(total, 0, 100))).  The total is a float sum:
\* when it is an exact .5 in the reals, float rounding error decides whether
\* round() goes down or up, so both are possible results.
TotalInts(b) ==
    LET t == clamp(Total10(b), 0, 1000)
    IN  IF t % 10 = 5 THEN {t \div 10, t \div 10 + 1}
        ELSE {RoundHalfEven(t, 10)}

\* The breakdown dictionary (lines 404-412).
Breakdown(min_dist, radius, es, wind, hum, slope, aspect) ==
    [flora    |-> FinalFlora(SumFloraPoints(es)),
     water    |-> WaterScore(min_dist),
     wind     |-> WindScore(wind),
     humidity |-> HumScore(hum),
     slope    |-> SlopeScore(slope),
     aspect   |-> AspectScore(aspect),
     pressure |-> PressureScore(Buildings(es), radius)]

\* The details dictionary (lines 414-428).
Details(min_dist, radius, es, wind, temp, hum, slope, aspect, elevation) ==
    [flora_type |-> {FloraType(es[i]) : i \in 1..Len(es)} \ {""},
     d_water    |-> DWaterM(min_dist),
     avg_wind   |-> wind,
     avg_temp   |-> temp,
     avg_hum    |-> hum,
     s_val      |-> slope,
     aspect_deg |-> aspect,
     dir_tr     |-> get_compass_direction_tr(aspect),
     elevation  |-> elevation,
     b_count    |-> Buildings(es),
     radius_m   |-> radius]

\* float(weather.get("windspeed", 0) or 0), float(weather.get("temperature", 0)
\* or 0), float(w_lat), float(w_lon): calculate_score raises when one of them
\* is not a number.
ScoreRaises(es, wx) ==
    \/ Raises(OrZero(wx.windspeed))
    \/ Raises(OrZero(wx.temperature))
    \/ WaterRaises(es)

\* calculate_score can raise: it does on a value that is not a number, and
\* can where get_distance_m can.
calculate_score_raises(lat, lng, es, wx) ==
    ScoreRaises(es, wx) \/ DistanceRaises(lat, lng, es)

\* What calculate_score returns for the rounded least distance m, before
\* the total.
ScoreParts(m, radius, es, wx, hum, slope, aspect, elevation) ==
    LET wind == OrZero(wx.windspeed).n
        temp == OrZero(wx.temperature).n
    IN  [details   |-> Details(m, radius, es, wind, temp, hum, slope, aspect,
                               elevation),
         breakdown |-> Breakdown(m, radius, es, wind, hum, slope, aspect)]

\* The results calculate_score can return (one, or more where the rounding
\* of the floats decides: on a tie of the total, or of a distance); the
\* empty set when it is sure to raise.
calculate_score(lat, lng, radius, es, wx, hum, slope, aspect, elevation) ==
    IF ScoreRaises(es, wx) THEN {}
    ELSE UNION {LET p == ScoreParts(m, radius, es, wx, hum, slope, aspect,
                                    elevation)
                IN  {[score |-> t, details |-> p.details,
                      breakdown |-> p.breakdown] : t \in TotalInts(p.breakdown)} :
                   m \in MinDistM(lat, lng, es)}

---------------------------------------------------------------------------
(* calculate_real_topography, the computation (src/app.py 257-286).        *)

\* Elevations are whole numbers of 1 / ElevUnit metre.
ElevUnit == 10000

\* ddeg = 0.001 degrees: dy_m = meters_per_deg_lat() * ddeg and
\* dx_m = meters_per_deg_lon(lat) * ddeg, in metres.
StepM(per_deg) == BigDivInt(per_deg, 1000)

\* 1e-6
Micro == <<0, 0, 0, 100>>

\* dx_m <= 1e-6 or dy_m <= 1e-6
NearZero(d) == BigCmp(d, Micro) <= 0

\* Bounds of the rounding errors of the doubles, as fixed-point numbers:
\* 2^-52, the relative error of the difference of two doubles read from
\* decimals, taken of the sum of their magnitudes; 2^-48, the relative error
\* of the operations from the division to the multiplication by 100.0
\* (math.atan and math.tan are not correctly rounded, their error depends on
\* the platform's library); 111.32 * 2^-50, the error of dx_m, from
\* math.cos(math.radians(lat)).
Ulp == <<2205, 2>>

Rho == <<5272, 35>>

DxSlack == <<7000, 988>>

\* A bound of the double |h - h0| in elevation units, from above (dir = 1)
\* or from below (dir = -1), for the decimals with the difference d >= 0 and
\* the sum of magnitudes hsum; two equal decimals are equal doubles.
Lift(d, hsum, dir) ==
    LET x     == FixOfInt(d)
        slack == BigAdd(BigMul(BigOfInt(d), Rho), BigMul(BigOfInt(hsum), Ulp))
    IN  IF d = 0 THEN <<0>>
        ELSE IF dir > 0 THEN BigAdd(x, slack)
        ELSE IF BigCmp(x, slack) > 0 THEN BigSub(x, slack)
        ELSE <<0>>

\* The terms of slope_pct = tan(atan(sqrt(dz_dx**2 + dz_dy**2))) * 100 at
\* the upper (dir = 1) or lower (dir = -1) bound of the doubles:
\* g2 = gx**2 + gy**2 with gx = 200 |h_east - h0| dy_m and
\* gy = 200 |h_north - h0| dx_m, and dxdy = dx_m * dy_m.
SlopeTerms(dx_m, dy_m, h0, h_north, h_east, dir) ==
    LET dx == IF dir > 0 THEN BigSub(dx_m, DxSlack) ELSE BigAdd(dx_m, DxSlack)
        ze == Lift(Abs(h_east - h0), Abs(h_east) + Abs(h0), dir)
        zn == Lift(Abs(h_north - h0), Abs(h_north) + Abs(h0), dir)
        gx == BigMul(BigMul(<<200>>, ze), dy_m)
        gy == BigMul(BigMul(<<200>>, zn), dx)
    IN  [g2 |-> BigAdd(BigMul(gx, gx), BigMul(gy, gy)), dxdy |-> BigMul(dx, dy_m)]

\* slope_pct against k + 0.5 (1 above, 0 equal, -1 below), for the terms t:
\* g2 against (ElevUnit * (2 k + 1) * dxdy)**2.
SlopeCmp(t, k) ==
    LET h == BigMul(BigOfInt(ElevUnit * (2 * k + 1)), t.dxdy)
    IN  BigCmp(t.g2, BigMul(h, h))

\* The least k in lo..hi with slope_pct, at the lower bound t, not above
\* k + 0.5: the least value round() can give.
RECURSIVE SlopeSearch(_, _, _)
SlopeSearch(t, lo, hi) ==
    IF lo >= hi THEN lo
    ELSE LET mid == (lo + hi) \div 2
         IN  IF SlopeCmp(t, mid) > 0 THEN SlopeSearch(t, mid + 1, hi)
             ELSE SlopeSearch(t, lo, mid)

\* The greatest value round() can give, from k on: slope_pct, at the upper
\* bound t, reaches k + 0.5.
RECURSIVE SlopeUp(_, _)
SlopeUp(t, k) == IF k < 200 /\ SlopeCmp(t, k) >= 0 THEN SlopeUp(t, k + 1) ELSE k

\* The values int(round(clamp(slope_pct, 0, 200))) can have: one, or two
\* when slope_pct is so close to a half that the rounding errors of the
\* float computation decide.
SlopePct(dx_m, dy_m, h0, h_north, h_east) ==
    LET lo == SlopeSearch(SlopeTerms(dx_m, dy_m, h0, h_north, h_east, -1), 0, 200)
    IN  lo .. SlopeUp(SlopeTerms(dx_m, dy_m, h0, h_north, h_east, 1), lo)

\* 10^-12 degrees, in radians: a bound of the rounding errors of
\* math.atan2, math.degrees and the addition of 360.0 (half an ulp of a
\* double between 512 and 1024 is 5.7 * 10^-14).
AspectSlack == <<5329, 174>>

\* The magnitudes of the arguments of atan2 at the bound of the doubles that
\* turns the angle away from the y axis (dir = 1) or towards it (dir = -1):
\* gx = 200 |h_east - h0| dy_m and gy = 200 |h_north - h0| dx_m.
AspectTerms(dx_m, dy_m, h0, h_north, h_east, dir) ==
    LET dx == IF dir > 0 THEN BigSub(dx_m, DxSlack) ELSE BigAdd(dx_m, DxSlack)
        ze == Lift(Abs(h_east - h0), Abs(h_east) + Abs(h0), dir)
        zn == Lift(Abs(h_north - h0), Abs(h_north) + Abs(h0), -dir)
    IN  [gx |-> BigMul(BigMul(<<200>>, ze), dy_m),
         gy |-> BigMul(BigMul(<<200>>, zn), dx)]

\* atan(gx / gy) >= j + 0.5 degrees: gx * cos(j + 0.5) >= gy * sin(j + 0.5),
\* with the half degree moved by AspectSlack: towards the angle with
\* dir = 1 (the float can reach it), away from it with dir = -1 (the float
\* is sure to).
AtanBeyond(t, j, dir) ==
    LET h  == (2 * j + 1) * 1000000
        sn == SinHalfMicro(h)
        cs == SinHalfMicro(180000000 - h)
        ds == FixMul(AspectSlack, sn)
        dc == FixMul(AspectSlack, cs)
    IN  IF dir > 0
        THEN BigCmp(BigMul(t.gx, BigAdd(cs, ds)), BigMul(t.gy, BigSub(sn, dc))) >= 0
        ELSE BigCmp(BigMul(t.gx, BigSub(cs, ds)), BigMul(t.gy, BigAdd(sn, dc))) >= 0

\* The least j in lo..hi with the angle, at the bound t, not surely beyond
\* j + 0.5 degrees.
RECURSIVE AtanSearch(_, _, _)
AtanSearch(t, lo, hi) ==
    IF lo >= hi THEN lo
    ELSE LET mid == (lo + hi) \div 2
         IN  IF AtanBeyond(t, mid, -1) THEN AtanSearch(t, mid + 1, hi)
             ELSE AtanSearch(t, lo, mid)

\* The greatest whole degree the angle can round to, from j on.
RECURSIVE AtanUp(_, _)
AtanUp(t, j) == IF j < 90 /\ AtanBeyond(t, j, 1) THEN AtanUp(t, j + 1) ELSE j

\* The values round(degrees(atan(gx / gy))) can have for gx, gy > 0: the
\* whole degrees nearest to the angle between the vector (gx, gy) and the y
\* axis; one, or two when the angle is so close to a half degree that the
\* rounding errors of the float computation decide.
AtanDeg(dx_m, dy_m, h0, h_north, h_east) ==
    LET lo == AtanSearch(AspectTerms(dx_m, dy_m, h0, h_north, h_east, -1), 0, 90)
    IN  lo .. AtanUp(AspectTerms(dx_m, dy_m, h0, h_north, h_east, 1), lo)

Sign(a) == IF a > 0 THEN 1 ELSE IF a < 0 THEN -1 ELSE 0

\* The values of
\* int(round((math.degrees(math.atan2(x, y)) + 360.0) % 360.0)) where x has
\* the sign sx, y the sign sy and `angles` are the values of
\* round(degrees(atan(|x| / |y|))).  A zero is the float -0.0 here (it is
\* -dz_dx or -dz_dy of a zero difference): atan2(-0.0, y > 0) = -0.0,
\* atan2(-0.0, y <= -0.0) = -pi.
Atan2Deg(sx, sy, angles) ==
    IF sx = 0 THEN (IF sy > 0 THEN {0} ELSE {180})
    ELSE IF sy = 0 THEN (IF sx > 0 THEN {90} ELSE {270})
    ELSE IF sx > 0 /\ sy > 0 THEN angles
    ELSE IF sx > 0 /\ sy < 0 THEN {180 - a : a \in angles}
    ELSE IF sx < 0 /\ sy < 0 THEN {180 + a : a \in angles}
    ELSE {360 - a : a \in angles}

\* aspect: the values of int(round(aspect_deg)), aspect_deg =
\* (degrees(atan2(-dz_dx, -dz_dy)) + 360.0) % 360.0.
AspectDeg(dx_m, dy_m, h0, h_north, h_east) ==
    Atan2Deg(-Sign(h_east - h0), -Sign(h_north - h0),
             IF h_east = h0 \/ h_north = h0 THEN {0}
             ELSE AtanDeg(dx_m, dy_m, h0, h_north, h_east))

\* n / d rounded to the nearest integer instead of cut.
NearestDiv(n, d) == RoundHalfEven(n, d)

\* int(h0): truncation towards zero of n / d, d > 0.
TruncDiv(n, d) == IF n >= 0 THEN n \div d ELSE -((-n) \div d)

\* The values the try block can compute from the parsed `elevation` list
\* (JSON scalars) at latitude lat: lines 257-286.  float() of a non-number
\* raises, and the except clause (288-292) returns (0, 0, 0).
Topography(lat, elevs) ==
    IF Len(elevs) < 3 THEN {<<0, 0, 0>>}
    ELSE IF Raises(elevs[1]) \/ Raises(elevs[2]) \/ Raises(elevs[3])
    THEN {<<0, 0, 0>>}
    ELSE LET h0      == elevs[1].n
             h_north == elevs[2].n
             h_east  == elevs[3].n
             dy_m    == StepM(meters_per_deg_lat)
             dx_m    == StepM(meters_per_deg_lon(lat))
         IN  IF NearZero(dx_m) \/ NearZero(dy_m)
             THEN {<<0, 0, TruncDiv(h0, ElevUnit)>>}
             ELSE {<<slope, aspect, RoundHalfEven(h0, ElevUnit)>> :
                       slope \in SlopePct(dx_m, dy_m, h0, h_north, h_east),
                       aspect \in AspectDeg(dx_m, dy_m, h0, h_north, h_east)}

---------------------------------------------------------------------------
(* What an external HTTP call can do, after the session's retries:         *)
(*   "exc"     HTTP.get raises (transport failure, timeout, retries        *)
(*             exhausted);                                                 *)
(*   "status"  a response whose status_code is not 200;                    *)
(*   "badjson" status 200 whose body r.json() cannot parse (it raises);    *)
(*   "notobj"  status 200 whose body parses to a JSON value that is not an *)
(*             object (data.get raises AttributeError);                    *)
(*   "ok"      status 200 with a parsed JSON object, `body`.               *)

Reply(kind, body) == [kind |-> kind, body |-> body]

FailureKinds == {"exc", "status", "badjson", "notobj"}

NoReply == Reply("none", <<>>)

---------------------------------------------------------------------------
(* get_full_weather, the computation (src/app.py 211-238).                 *)
(* A body is [current, times, hums]: the current_weather object (its time  *)
(* is an hour number, 0 when missing), hourly.time and                     *)
(* hourly.relativehumidity_2m.  {} is the current record with no fields.   *)

Current(windspeed, temperature, time) ==
    [windspeed |-> windspeed, temperature |-> temperature, time |-> time]

EmptyCurrent == Current(Null, Null, 0)

WeatherBody(current, times, hums) ==
    [current |-> current, times |-> times, hums |-> hums]

\* times.index(cur_time): the first index holding cur_time.
IndexOf(times, cur_time) ==
    CHOOSE i \in 1..Len(times) :
        /\ times[i] = cur_time
        /\ \A j \in 1..(i - 1) : times[j] # cur_time

\* The first hourly entry, whatever the timestamp.
SelectedFirst(body) == body.hums[1]

\* The hourly entry the code reads: hums[idx] on an exact match of the
\* timestamp, hums[0] otherwise (lines 222-228).
SelectedHum(body) ==
    IF \E i \in 1..Len(body.times) : body.times[i] = body.current.time
    THEN body.hums[IndexOf(body.times, body.current.time)]
    ELSE body.hums[1]

\* `if cur_time and times and hums and len(times) == len(hums)` (line 220)
HourlyUsable(body) ==
    /\ body.current.time # 0
    /\ body.times # <<>>
    /\ body.hums # <<>>
    /\ Len(body.times) = Len(body.hums)

DefaultHumidity == 50

\* The pair (current, humidity) the function returns for a reply.
FullWeather(reply) ==
    IF reply.kind # "ok" THEN <<EmptyCurrent, DefaultHumidity>>
    ELSE IF ~HourlyUsable(reply.body)
    THEN <<reply.body.current, clamp(DefaultHumidity, 0, 100)>>
    ELSE IF Raises(SelectedHum(reply.body))
    THEN <<EmptyCurrent, DefaultHumidity>>
    ELSE <<reply.body.current, clamp(SelectedHum(reply.body).n, 0, 100)>>

---------------------------------------------------------------------------
(* calculate_real_topography on a reply (src/app.py 252-292): the body of  *)
(* an "ok" reply is the `elevation` list.                                  *)

RealTopography(lat, reply) ==
    IF reply.kind # "ok" THEN {<<0, 0, 0>>} ELSE Topography(lat, reply.body)

---------------------------------------------------------------------------
(* get_osm_data on the replies of the endpoints (src/app.py 175-190): the  *)
(* body of an "ok" reply is the `elements` list.                           *)

OVERPASS_ENDPOINTS == <<"overpass-api.de", "overpass.kumi.systems">>

\* The endpoints contacted, in order, when endpoint i would answer
\* replies[i]: the loop stops at the first "ok" reply.
RECURSIVE OsmContacted(_, _)
OsmContacted(replies, i) ==
    IF i > Len(replies) THEN <<>>
    ELSE IF replies[i].kind = "ok" THEN <<i>>
    ELSE <<i>> \o OsmContacted(replies, i + 1)

\* The elements returned: those of the first "ok" reply, [] when none.
OsmElements(replies) ==
    LET c == OsmContacted(replies, 1)
    IN  IF c # <<>> /\ replies[c[Len(c)]].kind = "ok"
        THEN replies[c[Len(c)]].body
        ELSE <<>>

---------------------------------------------------------------------------
(* parse_lat_lng_radius (src/app.py 121-137).  A payload is                *)
(* [lat, lng, radius] of JSON scalars; Null stands for an absent key.      *)

Payload(lat, lng, radius) == [lat |-> lat, lng |-> lng, radius |-> radius]

DefaultRadius == 2000

MinRadius == 250

MaxRadius == 10000

MaxLat == 90000000

MaxLng == 180000000

\* parse_lat_lng_radius raises ValueError (or float()/int() does).
ParseRaises(p) ==
    \/ Raises(p.lat)
    \/ Raises(p.lng)
    \/ (p.radius # Null /\ Raises(p.radius))
    \/ ~(-MaxLat <= p.lat.n /\ p.lat.n <= MaxLat)
    \/ ~(-MaxLng <= p.lng.n /\ p.lng.n <= MaxLng)

\* The (lat, lng, radius) it returns otherwise.
parse_lat_lng_radius(p) ==
    [lat    |-> p.lat.n,
     lng    |-> p.lng.n,
     radius |-> clamp(IF p.radius = Null THEN DefaultRadius ELSE p.radius.n,
                      MinRadius, MaxRadius)]

---------------------------------------------------------------------------
(* build_heatmap (src/app.py 448-460): HeatmapPoints simulated points, each *)
(* with val = int(clamp(random.gauss(base_score, 8), 5, 100)).  The draws   *)
(* are not chosen: the response carries, for its points, the set of the     *)
(* values a draw can give.  random.gauss(mu, 8) is mu + 8 * z with          *)
(* |z| <= sqrt(-2 * ln(2^-53)) = 8.5717, so a draw lies within 68.58 of     *)
(* base_score and its integer part within base_score - 69 .. base_score + 68*)
(* before the clamp.                                                        *)

HeatmapPoints == 24

GaussBelow == 69

GaussAbove == 68

HeatVals(base_score) ==
    clamp(base_score - GaussBelow, 5, 100) .. clamp(base_score + GaussAbove, 5, 100)

Heatmap(base_score) ==
    [simulated |-> TRUE, points |-> HeatmapPoints, vals |-> HeatVals(base_score)]

---------------------------------------------------------------------------
(* The state machine: /analyze (src/app.py 492-509) and /download_report   *)
(* (src/app.py 511-586).  The server runs each request on a thread of its  *)
(* own (app.run, line 594), so two requests may be in progress at once.    *)
(* pc, route, payload, req, elements, weather, humidity, topo, item, res,  *)
(* contacted, outcome and nreq are the local state of the request thread   *)
(* that is running; `suspended` is that of the other one, and Switch hands *)
(* the processor over.  Nothing in TTLCache is locked, so a source call is *)
(* up to six steps: in TTLCache.get the read of the dictionary, the test   *)
(* of the expiry against the clock and the pop by key; the wait for the    *)
(* service (HTTP.get blocks); in TTLCache.set the construction of the      *)
(* CacheItem from the clock and the assignment to the dictionary.  The     *)
(* clock may advance and the other thread may run between any two steps.   *)

NoRequest == [lat |-> 0, lng |-> 0, radius |-> 0]

NoPayload == Payload(Null, Null, Null)

NoResponse == [status |-> 0]

NoOp == [op |-> "none"]

NoCalls == [osm |-> <<>>, wx |-> 0, elev |-> 0]

\* The local `item` of a thread that is in neither TTLCache.get nor
\* TTLCache.set.
NoItem == CacheItem(<<>>, 0)

\* Per source: how its call ended ("none" while it has not), the fills that
\* were live when its cache lookup was made (see Live), and the CacheItem
\* its TTLCache.set assigned.
NoOutcome ==
    [osm |-> "none", wx |-> "none", elev |-> "none",
     live |-> [osm |-> {}, wx |-> {}, elev |-> {}],
     cached |-> [osm |-> NoItem, wx |-> NoItem, elev |-> NoItem]]

\* A request thread that has not served any request.
NoThread ==
    [pc |-> "idle", route |-> "none", payload |-> NoPayload, req |-> NoRequest,
     elements |-> <<>>, weather |-> EmptyCurrent, humidity |-> 0,
     topo |-> <<0, 0, 0>>, item |-> NoItem, res |-> NoResponse,
     contacted |-> NoCalls, outcome |-> NoOutcome, nreq |-> 0]

\* The request threads that may call one cache at the same time.
MaxThreads == 2

Threads == 1..MaxThreads

\* A thread outside any TTLCache call; n counts the calls it has made.
IdleThread(n) ==
    [pc |-> "idle", key |-> "", item |-> CacheItem(<<>>, 0), at |-> 0, n |-> n]

NoThreads == [t \in Threads |-> IdleThread(0)]

\* The clock advances in steps of TickStep seconds, up to MaxTime.
TickStep == 300

MaxTime == 900

Init ==
    /\ now = 0
    /\ CACHE_OSM = EmptyStore
    /\ CACHE_WEATHER = EmptyStore
    /\ CACHE_ELEV = EmptyStore
    /\ pc = "idle"
    /\ route = "none"
    /\ payload = NoPayload
    /\ req = NoRequest
    /\ elements = <<>>
    /\ weather = EmptyCurrent
    /\ humidity = 0
    /\ topo = <<0, 0, 0>>
    /\ item = NoItem
    /\ res = NoResponse
    /\ contacted = NoCalls
    /\ outcome = NoOutcome
    /\ nreq = 0
    /\ fills = {}
    /\ lastSet = EmptyStore
    /\ lastOp = NoOp
    /\ upstream = NoReply
    /\ threads = NoThreads
    /\ suspended = NoThread

\* The variables of the request threads' caches, and those that only the
\* specifications of single functions use.
caches == <<CACHE_OSM, CACHE_WEATHER, CACHE_ELEV>>

unit == <<lastSet, lastOp, upstream, threads>>

TtlOf(src) == IF src = "osm" THEN OSM_TTL ELSE IF src = "wx" THEN WEATHER_TTL ELSE ELEV_TTL

\* History: a cache fill, made while serving request n (coordinates and
\* radius r) after a fetch that failed or not: the CacheItem `it` it
\* assigned under `key`, and the time `at` its TTLCache.set read from the
\* clock.
Fill(src, n, r, key, it, failed) ==
    [src |-> src, n |-> n, lat |-> r.lat, lng |-> r.lng, radius |-> r.radius,
     key |-> key, at |-> it.expires_at - TtlOf(src), failed |-> failed,
     item |-> it]

\* `fills` after the fill f: it keeps, for each source and key, the fill
\* that assigned under the key last.
Filled(f) == {g \in fills : g.src # f.src \/ g.key # f.key} \cup {f}

\* The fills of source src that are live: the last one under each key, if
\* its TTL has not elapsed.
Live(src) == {f \in fills : f.src = src /\ now <= f.item.expires_at}

\* The local state of a thread that starts to serve request n.
Started(n) ==
    /\ nreq' = n
    /\ elements' = <<>>
    /\ weather' = EmptyCurrent
    /\ humidity' = 0
    /\ topo' = <<0, 0, 0>>
    /\ item' = NoItem
    /\ contacted' = NoCalls
    /\ outcome' = NoOutcome

\* analyze, lines 495-496 and the except clause 507-509 for a payload that
\* does not parse: a request arrives on the running thread, which serves no
\* request, and is validated.  Requests are numbered as they arrive; at
\* most `max` arrive.
Receive(payloads, max) ==
    /\ pc \in {"idle", "done"}
    /\ Max(nreq, suspended.nreq) < max
    /\ \E p \in payloads :
        /\ payload' = p
        /\ IF ParseRaises(p)
           THEN /\ req' = NoRequest
                /\ res' = [status |-> 400]
                /\ pc' = "done"
           ELSE /\ req' = parse_lat_lng_radius(p)
                /\ res' = NoResponse
                /\ pc' = "osm"
    /\ route' = "analyze"
    /\ Started(Max(nreq, suspended.nreq) + 1)
    /\ UNCHANGED <<now, caches, fills, unit, suspended>>

\* download_report, lines 514-516: float() or int() of a query argument
\* raises; an absent one (Null) takes its default "nan" or "2000".
ReportRaises(a) ==
    \/ (a.lat # Null /\ Raises(a.lat))
    \/ (a.lng # Null /\ Raises(a.lng))
    \/ (a.radius # Null /\ Raises(a.radius))

\* download_report, line 518: the range test, which nan fails.
ReportRejects(a) ==
    \/ a.lat = Null
    \/ a.lng = Null
    \/ ~(-MaxLat <= a.lat.n /\ a.lat.n <= MaxLat)
    \/ ~(-MaxLng <= a.lng.n /\ a.lng.n <= MaxLng)

\* download_report, lines 514-521 and the except clause 584-586: a report
\* request arrives on the running thread; its query arguments are read as
\* a payload is.  An argument that is not a number gives "Rapor hatasi",
\* 500; coordinates absent or out of range give "Koordinat hatasi", 400.
ReceiveReport(args, max) ==
    /\ pc \in {"idle", "done"}
    /\ Max(nreq, suspended.nreq) < max
    /\ \E a \in args :
        /\ payload' = a
        /\ IF ReportRaises(a)
           THEN /\ req' = NoRequest
                /\ res' = [status |-> 500]
                /\ pc' = "done"
           ELSE IF ReportRejects(a)
           THEN /\ req' = NoRequest
                /\ res' = [status |-> 400]
                /\ pc' = "done"
           ELSE /\ req' = parse_lat_lng_radius(a)
                /\ res' = NoResponse
                /\ pc' = "osm"
    /\ route' = "report"
    /\ Started(Max(nreq, suspended.nreq) + 1)
    /\ UNCHANGED <<now, caches, fills, unit, suspended>>

\* The replies a service can give: a failure of one of `kinds`, or "ok" with
\* one of `bodies`.
Replies(kinds, bodies) ==
    {Reply(k, <<>>) : k \in kinds} \cup {Reply("ok", b) : b \in bodies}

\* The outcome record when the dictionary is read for source src.
Looked(src) == [outcome EXCEPT !.live[src] = Live(src)]

\* The outcome record when the expiry is tested: of the fills live at the
\* read, those still live at the test.
Tested(src) == [outcome EXCEPT !.live[src] = @ \cap Live(src)]

\* self._store[key] = item
StorePut(store, key, it) ==
    [k \in DOMAIN store \cup {key} |-> IF k = key THEN it ELSE store[k]]

\* get_osm_data, lines 149-150, and TTLCache.get, lines 102-104:
\* item = self._store.get(key); without an item get returns None and the
\* endpoints are asked.
GetOsmDataLookup ==
    /\ pc = "osm"
    /\ LET key == OsmKey(req.lat, req.lng, req.radius)
       IN  IF key \in DOMAIN CACHE_OSM
           THEN item' = CACHE_OSM[key] /\ pc' = "osm_exp"
           ELSE item' = NoItem /\ pc' = "osm_get"
    /\ outcome' = Looked("osm")
    /\ UNCHANGED <<now, caches, route, payload, req, elements, weather, humidity,
                   topo, res, contacted, nreq, fills, unit, suspended>>

\* TTLCache.get, lines 105 and 108, and get_osm_data, lines 151-152: the
\* clock is read and compared with item.expires_at; the value of an item
\* that has not expired is returned and the caller continues at `next`.
GetOsmDataExpiry(next) ==
    /\ pc = "osm_exp"
    /\ IF now > item.expires_at
       THEN /\ pc' = "osm_pop"
            /\ outcome' = Tested("osm")
            /\ UNCHANGED <<elements, item>>
       ELSE /\ elements' = item.value
            /\ outcome' = [Tested("osm") EXCEPT !.osm = "hit"]
            /\ item' = NoItem
            /\ pc' = next
    /\ UNCHANGED <<now, caches, route, payload, req, weather, humidity, topo, res,
                   contacted, nreq, fills, unit, suspended>>

\* TTLCache.get, lines 106-107: self._store.pop(key, None) removes whatever
\* is under the key now; get returns None and the endpoints are asked.
GetOsmDataPop ==
    /\ pc = "osm_pop"
    /\ CACHE_OSM' = StorePop(CACHE_OSM, OsmKey(req.lat, req.lng, req.radius))
    /\ item' = NoItem
    /\ pc' = "osm_get"
    /\ UNCHANGED <<now, CACHE_WEATHER, CACHE_ELEV, route, payload, req, elements,
                   weather, humidity, topo, res, contacted, outcome, nreq, fills,
                   unit, suspended>>

\* get_osm_data, lines 175-186: one turn of the loop over OVERPASS_ENDPOINTS.
\* HTTP.get of the next endpoint returns one of `replies`; a success ends the
\* loop with its elements, the failure of the last endpoint ends it with [].
GetOsmDataFetch(replies) ==
    /\ pc = "osm_get"
    /\ \E reply \in replies :
        LET i == Len(contacted.osm) + 1
        IN  /\ contacted' = [contacted EXCEPT !.osm =
                   Append(@, [ep   |-> OVERPASS_ENDPOINTS[i],
                              ok   |-> reply.kind = "ok",
                              body |-> reply.body])]
            /\ IF reply.kind = "ok"
               THEN /\ elements' = reply.body
                    /\ outcome' = [outcome EXCEPT !.osm = "ok"]
                    /\ pc' = "osm_set"
               ELSE IF i < Len(OVERPASS_ENDPOINTS)
               THEN UNCHANGED <<elements, outcome, pc>>
               ELSE /\ elements' = <<>>
                    /\ outcome' = [outcome EXCEPT !.osm = "failed"]
                    /\ pc' = "osm_set"
    /\ UNCHANGED <<now, caches, route, payload, req, weather, humidity, topo, item,
                   res, nreq, fills, unit, suspended>>

\* get_osm_data, lines 182 and 189, and TTLCache.set, line 111, right-hand
\* side: CacheItem(value=value, expires_at=time.time() + self.ttl), for the
\* elements of a success and for [] after the failure of every endpoint.
GetOsmDataItem ==
    /\ pc = "osm_set"
    /\ item' = CacheItem(elements, now + OSM_TTL)
    /\ pc' = "osm_put"
    /\ UNCHANGED <<now, caches, route, payload, req, elements, weather, humidity,
                   topo, res, contacted, outcome, nreq, fills, unit, suspended>>

\* TTLCache.set, line 111, the assignment self._store[key] = ..., and the
\* return of get_osm_data, lines 183 and 190; the caller continues at `next`.
GetOsmDataStore(next) ==
    /\ pc = "osm_put"
    /\ LET key == OsmKey(req.lat, req.lng, req.radius)
       IN  /\ CACHE_OSM' = StorePut(CACHE_OSM, key, item)
           /\ fills' = Filled(Fill("osm", nreq, req, key, item,
                                   outcome.osm = "failed"))
    /\ outcome' = [outcome EXCEPT !.cached.osm = item]
    /\ item' = NoItem
    /\ pc' = next
    /\ UNCHANGED <<now, CACHE_WEATHER, CACHE_ELEV, route, payload, req, elements,
                   weather, humidity, topo, res, contacted, nreq, unit,
                   suspended>>

\* get_full_weather, lines 194-195, and TTLCache.get, lines 102-104.
GetFullWeatherLookup ==
    /\ pc = "weather"
    /\ LET key == WxKey(req.lat, req.lng)
       IN  IF key \in DOMAIN CACHE_WEATHER
           THEN item' = CACHE_WEATHER[key] /\ pc' = "weather_exp"
           ELSE item' = NoItem /\ pc' = "weather_get"
    /\ outcome' = Looked("wx")
    /\ UNCHANGED <<now, caches, route, payload, req, elements, weather, humidity,
                   topo, res, contacted, nreq, fills, unit, suspended>>

\* TTLCache.get, lines 105 and 108, and get_full_weather, lines 196-197.
GetFullWeatherExpiry(next) ==
    /\ pc = "weather_exp"
    /\ IF now > item.expires_at
       THEN /\ pc' = "weather_pop"
            /\ outcome' = Tested("wx")
            /\ UNCHANGED <<weather, humidity, item>>
       ELSE /\ weather' = item.value[1]
            /\ humidity' = item.value[2]
            /\ outcome' = [Tested("wx") EXCEPT !.wx = "hit"]
            /\ item' = NoItem
            /\ pc' = next
    /\ UNCHANGED <<now, caches, route, payload, req, elements, topo, res, contacted,
                   nreq, fills, unit, suspended>>

\* TTLCache.get, lines 106-107, called by get_full_weather.
GetFullWeatherPop ==
    /\ pc = "weather_pop"
    /\ CACHE_WEATHER' = StorePop(CACHE_WEATHER, WxKey(req.lat, req.lng))
    /\ item' = NoItem
    /\ pc' = "weather_get"
    /\ UNCHANGED <<now, CACHE_OSM, CACHE_ELEV, route, payload, req, elements,
                   weather, humidity, topo, res, contacted, outcome, nreq, fills,
                   unit, suspended>>

\* get_full_weather, lines 206-231 and 234-236: HTTP.get returns one of
\* `replies` and `out` is computed from it.
GetFullWeatherFetch(replies) ==
    /\ pc = "weather_get"
    /\ \E reply \in replies :
        LET out == FullWeather(reply)
        IN  /\ weather' = out[1]
            /\ humidity' = out[2]
            /\ contacted' = [contacted EXCEPT !.wx = 1]
            /\ outcome' = [outcome EXCEPT !.wx =
                   IF reply.kind = "ok" THEN "ok" ELSE "failed"]
    /\ pc' = "weather_set"
    /\ UNCHANGED <<now, caches, route, payload, req, elements, topo, item, res,
                   nreq, fills, unit, suspended>>

\* get_full_weather, lines 231 and 237, and TTLCache.set, line 111,
\* right-hand side: the CacheItem of `out`, stamped from the clock.
GetFullWeatherItem ==
    /\ pc = "weather_set"
    /\ item' = CacheItem(<<weather, humidity>>, now + WEATHER_TTL)
    /\ pc' = "weather_put"
    /\ UNCHANGED <<now, caches, route, payload, req, elements, weather, humidity,
                   topo, res, contacted, outcome, nreq, fills, unit, suspended>>

\* TTLCache.set, line 111, the assignment, and the return of
\* get_full_weather, lines 232 and 238.
GetFullWeatherStore(next) ==
    /\ pc = "weather_put"
    /\ LET key == WxKey(req.lat, req.lng)
       IN  /\ CACHE_WEATHER' = StorePut(CACHE_WEATHER, key, item)
           /\ fills' = Filled(Fill("wx", nreq, req, key, item,
                                   outcome.wx = "failed"))
    /\ outcome' = [outcome EXCEPT !.cached.wx = item]
    /\ item' = NoItem
    /\ pc' = next
    /\ UNCHANGED <<now, CACHE_OSM, CACHE_ELEV, route, payload, req, elements,
                   weather, humidity, topo, res, contacted, nreq, unit,
                   suspended>>

\* calculate_real_topography, lines 242-243, and TTLCache.get, lines 102-104.
CalculateRealTopographyLookup ==
    /\ pc = "topo"
    /\ LET key == ElevKey(req.lat, req.lng)
       IN  IF key \in DOMAIN CACHE_ELEV
           THEN item' = CACHE_ELEV[key] /\ pc' = "topo_exp"
           ELSE item' = NoItem /\ pc' = "topo_get"
    /\ outcome' = Looked("elev")
    /\ UNCHANGED <<now, caches, route, payload, req, elements, weather, humidity,
                   topo, res, contacted, nreq, fills, unit, suspended>>

\* TTLCache.get, lines 105 and 108, and calculate_real_topography, lines
\* 244-245.
CalculateRealTopographyExpiry(next) ==
    /\ pc = "topo_exp"
    /\ IF now > item.expires_at
       THEN /\ pc' = "topo_pop"
            /\ outcome' = Tested("elev")
            /\ UNCHANGED <<topo, item, item>>
       ELSE /\ topo' = item.value
            /\ outcome' = [Tested("elev") EXCEPT !.elev = "hit"]
            /\ item' = NoItem
            /\ pc' = next
    /\ UNCHANGED <<now, caches, route, payload, req, elements, weather, humidity,
                   res, contacted, nreq, fills, unit, suspended>>

\* TTLCache.get, lines 106-107, called by calculate_real_topography.
CalculateRealTopographyPop ==
    /\ pc = "topo_pop"
    /\ CACHE_ELEV' = StorePop(CACHE_ELEV, ElevKey(req.lat, req.lng))
    /\ item' = NoItem
    /\ pc' = "topo_get"
    /\ UNCHANGED <<now, CACHE_OSM, CACHE_WEATHER, route, payload, req, elements,
                   weather, humidity, topo, res, contacted, outcome, nreq, fills,
                   unit, suspended>>

\* calculate_real_topography, lines 253-285 and 288-290: HTTP.get returns
\* one of `replies` and `out` is computed from it.
CalculateRealTopographyFetch(replies) ==
    /\ pc = "topo_get"
    /\ \E reply \in replies :
        /\ topo' \in RealTopography(req.lat, reply)
        /\ contacted' = [contacted EXCEPT !.elev = 1]
        /\ outcome' = [outcome EXCEPT !.elev =
               IF reply.kind = "ok" THEN "ok" ELSE "failed"]
    /\ pc' = "topo_set"
    /\ UNCHANGED <<now, caches, route, payload, req, elements, weather, humidity,
                   item, res, nreq, fills, unit, suspended>>

\* calculate_real_topography, lines 260, 269, 286 and 291, and TTLCache.set,
\* line 111, right-hand side: the CacheItem of `out`, stamped from the clock.
CalculateRealTopographyItem ==
    /\ pc = "topo_set"
    /\ item' = CacheItem(topo, now + ELEV_TTL)
    /\ pc' = "topo_put"
    /\ UNCHANGED <<now, caches, route, payload, req, elements, weather, humidity,
                   topo, res, contacted, outcome, nreq, fills, unit, suspended>>

\* TTLCache.set, line 111, the assignment, and the return of
\* calculate_real_topography, lines 261, 270, 287 and 292.
CalculateRealTopographyStore(next) ==
    /\ pc = "topo_put"
    /\ LET key == ElevKey(req.lat, req.lng)
       IN  /\ CACHE_ELEV' = StorePut(CACHE_ELEV, key, item)
           /\ fills' = Filled(Fill("elev", nreq, req, key, item,
                                   outcome.elev = "failed"))
    /\ outcome' = [outcome EXCEPT !.cached.elev = item]
    /\ item' = NoItem
    /\ pc' = next
    /\ UNCHANGED <<now, CACHE_OSM, CACHE_WEATHER, route, payload, req, elements,
                   weather, humidity, topo, res, contacted, nreq, unit,
                   suspended>>

\* analyze, lines 502-509: calculate_score, build_heatmap and the response;
\* an exception of calculate_score becomes the 400 error response.
Respond ==
    /\ pc = "score"
    /\ route = "analyze"
    /\ LET results == calculate_score(req.lat, req.lng, req.radius, elements,
                                      weather, humidity, topo[1], topo[2], topo[3])
       IN  \/ /\ calculate_score_raises(req.lat, req.lng, elements, weather)
              /\ res' = [status |-> 400]
           \/ \E r \in results :
                  res' = [status    |-> 200,
                          score     |-> r.score,
                          details   |-> r.details,
                          breakdown |-> r.breakdown,
                          heatmap   |-> Heatmap(r.score)]
    /\ pc' = "done"
    /\ UNCHANGED <<now, caches, route, payload, req, elements, weather, humidity,
                   topo, item, contacted, outcome, nreq, fills, unit, suspended>>

\* download_report, lines 527-582 and the except clause 584-586:
\* calculate_score, the PDF written from its score and details, and the
\* file sent; an exception of calculate_score becomes "Rapor hatasi", 500.
RespondReport ==
    /\ pc = "score"
    /\ route = "report"
    /\ LET results == calculate_score(req.lat, req.lng, req.radius, elements,
                                      weather, humidity, topo[1], topo[2], topo[3])
       IN  \/ /\ calculate_score_raises(req.lat, req.lng, elements, weather)
              /\ res' = [status |-> 500]
           \/ \E r \in results :
                  res' = [status  |-> 200,
                          score   |-> r.score,
                          details |-> r.details]
    /\ pc' = "done"
    /\ UNCHANGED <<now, caches, route, payload, req, elements, weather, humidity,
                   topo, item, contacted, outcome, nreq, fills, unit, suspended>>

\* The local state of the request thread that is running.
Running ==
    [pc |-> pc, route |-> route, payload |-> payload, req |-> req,
     elements |-> elements, weather |-> weather, humidity |-> humidity,
     topo |-> topo, item |-> item, res |-> res, contacted |-> contacted,
     outcome |-> outcome, nreq |-> nreq]

\* The other request thread runs.  There is no handing over between two
\* threads that serve no request.
Switch ==
    /\ ~(pc \in {"idle", "done"} /\ suspended.pc \in {"idle", "done"})
    /\ suspended' = Running
    /\ pc' = suspended.pc
    /\ route' = suspended.route
    /\ payload' = suspended.payload
    /\ req' = suspended.req
    /\ elements' = suspended.elements
    /\ weather' = suspended.weather
    /\ humidity' = suspended.humidity
    /\ topo' = suspended.topo
    /\ item' = suspended.item
    /\ res' = suspended.res
    /\ contacted' = suspended.contacted
    /\ outcome' = suspended.outcome
    /\ nreq' = suspended.nreq
    /\ UNCHANGED <<now, caches, fills, unit>>

\* time.time() advances to one of `instants`, between any two steps.
Advance(instants) ==
    /\ \E t \in instants : t > now /\ now' = t
    /\ UNCHANGED <<caches, pc, route, payload, req, elements, weather, humidity,
                   topo, item, res, contacted, outcome, nreq, fills, unit,
                   suspended>>

\* The clock advances by TickStep seconds, up to MaxTime.
Tick == Advance({now + TickStep} \cap 0..MaxTime)

---------------------------------------------------------------------------
(* Spec: /analyze and /download_report on two request threads that         *)
(* interleave at every step, with every kind of answer from the three      *)
(* services and the clock passing the expiry of every cache.               *)

Forest == Feature("forest", "", FALSE, Null, Null)

Building == Feature("", "", TRUE, Null, Null)

Water(lat, lon) == Feature("", "water", FALSE, Num(lat), Num(lon))

\* n copies of the element e.
Copies(n, e) == [i \in 1..n |-> e]

\* Requests served in one behaviour.
MaxRequests == 2

Payloads ==
    {Payload(Num(41000000), Num(29000000), Null),
     Payload(Num(91000000), Num(29000000), Null),
     Payload(NonNumeric, Num(29000000), Null)}

\* Query arguments of /download_report: valid ones, no lat, a radius that
\* is not a number.
ReportArgs ==
    {Payload(Num(41000000), Num(29000000), Null),
     Payload(Null, Num(29000000), Null),
     Payload(Num(41000000), Num(29000000), NonNumeric)}

\* Land cover: no element.
OsmBodies == {<<>>}

\* Weather: a body whose windspeed is not a number.
WeatherBodies == {WeatherBody(Current(NonNumeric, Num(22), 1), <<1>>, <<Num(55)>>)}

\* Elevation: one sample only.
ElevBodies == {<<Num(1200000)>>}

\* The clock is read again when the entries stored at the start have all
\* expired (the elevation entries live for 3600 seconds).
Instants == {4500}

Analyze == Receive(Payloads, MaxRequests)

DownloadReport == ReceiveReport(ReportArgs, MaxRequests)

GetOsmData ==
    \/ GetOsmDataLookup
    \/ GetOsmDataExpiry("weather")
    \/ GetOsmDataPop
    \/ GetOsmDataFetch(Replies(FailureKinds, OsmBodies))
    \/ GetOsmDataItem
    \/ GetOsmDataStore("weather")

GetFullWeather ==
    \/ GetFullWeatherLookup
    \/ GetFullWeatherExpiry("topo")
    \/ GetFullWeatherPop
    \/ GetFullWeatherFetch(Replies(FailureKinds, WeatherBodies))
    \/ GetFullWeatherItem
    \/ GetFullWeatherStore("topo")

CalculateRealTopography ==
    \/ CalculateRealTopographyLookup
    \/ CalculateRealTopographyExpiry("score")
    \/ CalculateRealTopographyPop
    \/ CalculateRealTopographyFetch(Replies(FailureKinds, ElevBodies))
    \/ CalculateRealTopographyItem
    \/ CalculateRealTopographyStore("score")

Clock == Advance(Instants)

Next ==
    \/ Analyze
    \/ DownloadReport
    \/ GetOsmData
    \/ GetFullWeather
    \/ CalculateRealTopography
    \/ Respond
    \/ RespondReport
    \/ Switch
    \/ Clock

Spec == Init /\ [][Next]_vars

---------------------------------------------------------------------------
(* SpecRepeat: the same two request threads, for /analyze requests whose   *)
(* coordinates differ in the sixth decimal; weather and elevation give one *)
(* regular answer, a land-cover endpoint may also fail.                    *)

NearbyPayloads ==
    {Payload(Num(41000000), Num(29000000), Null),
     Payload(Num(41000004), Num(29000004), Null),
     Payload(Num(41000005), Num(29000000), Null),
     Payload(Num(41000006), Num(29000000), Null)}

AnalyzeNearby == Receive(NearbyPayloads, MaxRequests)

GetOsmDataNearby ==
    \/ GetOsmDataLookup
    \/ GetOsmDataExpiry("weather")
    \/ GetOsmDataPop
    \/ GetOsmDataFetch(Replies({"exc"}, {<<Forest>>}))
    \/ GetOsmDataItem
    \/ GetOsmDataStore("weather")

GetFullWeatherNearby ==
    \/ GetFullWeatherLookup
    \/ GetFullWeatherExpiry("topo")
    \/ GetFullWeatherPop
    \/ GetFullWeatherFetch(
           Replies({},
                   {WeatherBody(Current(Num(10), Num(22), 1), <<1>>, <<Num(55)>>)}))
    \/ GetFullWeatherItem
    \/ GetFullWeatherStore("topo")

CalculateRealTopographyNearby ==
    \/ CalculateRealTopographyLookup
    \/ CalculateRealTopographyExpiry("score")
    \/ CalculateRealTopographyPop
    \/ CalculateRealTopographyFetch(Replies({}, {<<Num(1200000)>>}))
    \/ CalculateRealTopographyItem
    \/ CalculateRealTopographyStore("score")

NextRepeat ==
    \/ AnalyzeNearby
    \/ GetOsmDataNearby
    \/ GetFullWeatherNearby
    \/ CalculateRealTopographyNearby
    \/ Respond
    \/ Switch
    \/ Clock

SpecRepeat == Init /\ [][NextRepeat]_vars

---------------------------------------------------------------------------
(* SpecOsm: get_osm_data called for one request after the other on two     *)
(* request threads that interleave at every step; each endpoint answers    *)
(* with a failure or with elements, and the clock passes the expiry of the *)
(* land-cover entries.  The handlers' other calls do not touch CACHE_OSM   *)
(* and are left out: the request is done when get_osm_data returns.        *)

\* Calls of get_osm_data in one behaviour.
MaxRepeats == 4

OsmPayloads == {Payload(Num(41000000), Num(29000000), Null)}

GetOsmDataCalled ==
    \/ Receive(OsmPayloads, MaxRepeats)
    \/ ReceiveReport(OsmPayloads, MaxRepeats)

GetOsmDataReturned ==
    \/ GetOsmDataLookup
    \/ GetOsmDataExpiry("done")
    \/ GetOsmDataPop
    \/ GetOsmDataFetch(Replies(FailureKinds, {<<>>, <<Forest>>}))
    \/ GetOsmDataItem
    \/ GetOsmDataStore("done")

\* The clock is read again within the 600 seconds an entry lives, and after.
ClockOsm == Advance({300, 900})

NextOsm ==
    \/ GetOsmDataCalled
    \/ GetOsmDataReturned
    \/ Switch
    \/ ClockOsm

SpecOsm == Init /\ [][NextOsm]_vars

---------------------------------------------------------------------------
(* Properties of /analyze.                                                 *)

\* The /analyze request being served passed validation and every source has
\* answered.
Served == pc = "done" /\ route = "analyze" /\ ~ParseRaises(payload)

\* C1: every request that passes validation gets the complete result
\* (status 200 with score, breakdown, details and heatmap), whatever the
\* three services answered; an error is returned only when validation fails.
C1_ValidRequestGetsResult == Served => res.status = 200

\* C7: when the land-cover result is empty and the weather and the elevation
\* call of this request both failed, analyze answers 200 with humidity 50,
\* slope 0, aspect 0, elevation 0 in the details and flora 0, water 10 in
\* the breakdown.
C7_DefaultsWhenSourcesFail ==
    (/\ Served
     /\ elements = <<>>
     /\ outcome.wx = "failed"
     /\ outcome.elev = "failed")
    => /\ res.status = 200
       /\ res.details.avg_hum = 50
       /\ res.details.s_val = 0
       /\ res.details.aspect_deg = 0
       /\ res.details.elevation = 0
       /\ res.breakdown.flora = 0
       /\ res.breakdown.water = 10

\* A request answered from the defaults: the land-cover service answered 200
\* with no element, weather and elevation were unreachable.
C7_Witness ==
    /\ Served
    /\ outcome.osm = "ok"
    /\ elements = <<>>
    /\ outcome.wx = "failed"
    /\ outcome.elev = "failed"
    /\ res.status = 200
    /\ res.breakdown.water = 10

\* The pcs at which the running request is inside the call of source src.
StagesOf(src) ==
    IF src = "osm"
    THEN {"osm", "osm_exp", "osm_pop", "osm_get", "osm_set", "osm_put"}
    ELSE IF src = "wx"
    THEN {"weather", "weather_exp", "weather_pop", "weather_get", "weather_set",
          "weather_put"}
    ELSE {"topo", "topo_exp", "topo_pop", "topo_get", "topo_set", "topo_put"}

\* The call of source src by the request being served has returned.
Returned(src) == outcome[src] # "none" /\ pc \notin StagesOf(src)

---------------------------------------------------------------------------
(* Properties of get_osm_data, under SpecOsm.                              *)

\* C10: on a cache miss get_osm_data contacts the endpoints in list order,
\* goes on to the next one only after a failure, returns and caches the
\* elements of the first success, and returns and caches the empty list when
\* every endpoint failed; a request that looks its key up while the entry of
\* such a failure is the latest one cached under the key and has not expired
\* gets the empty list and contacts no endpoint.
C10_EndpointsInOrderAndCached ==
    Returned("osm") =>
        LET c   == contacted.osm
            n   == Len(c)
            key == OsmKey(req.lat, req.lng, req.radius)
        IN  /\ outcome.osm \in {"ok", "failed"} =>
                /\ n >= 1
                /\ n <= Len(OVERPASS_ENDPOINTS)
                /\ \A i \in 1..n : c[i].ep = OVERPASS_ENDPOINTS[i]
                /\ \A i \in 1..(n - 1) : ~c[i].ok
                /\ c[n].ok => elements = c[n].body
                /\ ~c[n].ok => n = Len(OVERPASS_ENDPOINTS) /\ elements = <<>>
                /\ outcome.cached.osm.value = elements
                /\ outcome.cached.osm.expires_at - 600 \in 0..now
            /\ \A f \in outcome.live.osm :
                   (f.failed /\ f.key = key) =>
                       /\ outcome.osm = "hit"
                       /\ contacted.osm = <<>>
                       /\ elements = <<>>

---------------------------------------------------------------------------
(* Properties of the cache keys, under SpecRepeat.                         *)

\* The coordinate cut after its fifth decimal, with its sign.
Truncated5(x) == <<x < 0, Abs(x) \div 10>>

NoCall(src) == IF src = "osm" THEN contacted.osm = <<>> ELSE contacted[src] = 0

KeyOf(src, lat, lng, radius) ==
    IF src = "osm" THEN OsmKey(lat, lng, radius)
    ELSE IF src = "wx" THEN WxKey(lat, lng)
    ELSE ElevKey(lat, lng)

\* The fills of another request with the radius of the request being served
\* that were live when this request looked source src up.
EarlierFills(src) ==
    {f \in outcome.live[src] : f.n # nreq /\ f.radius = req.radius}

SameTruncated(f) ==
    Truncated5(f.lat) = Truncated5(req.lat) /\ Truncated5(f.lng) = Truncated5(req.lng)

\* C4: two requests with the same radius whose coordinates have the same
\* digits up to the fifth decimal and differ in the sixth only build
\* identical cache keys in the three sources, and the second one, when it
\* looks a source up while the entry of the first one is the latest under
\* its key and within its TTL, is a cache hit that makes no external call.
C4_SameFiveDigitsShareKeys ==
    \A src \in {"osm", "wx", "elev"} :
        Returned(src) =>
            \A f \in EarlierFills(src) :
                SameTruncated(f) =>
                    /\ KeyOf(src, f.lat, f.lng, f.radius)
                           = KeyOf(src, req.lat, req.lng, req.radius)
                    /\ outcome[src] = "hit"
                    /\ NoCall(src)

---------------------------------------------------------------------------
(* SpecScore: calculate_score and the response of analyze on inputs drawn   *)
(* from the ranges the three sources can deliver.                           *)

Farm == Feature("farm", "", FALSE, Null, Null)

ScoreRequests ==
    {[lat |-> 41000000, lng |-> 29000000, radius |-> r] : r \in {250, 2000, 10000}}

\* No water, water at the request's position, water 3 milli-degrees north
\* of it (334 m), or water 9 milli-degrees north (1001 m) and water 3
\* milli-degrees north and 4 east (473 m).
ScoreWaters(r) ==
    {<<>>,
     <<Water(r.lat, r.lng)>>,
     <<Water(r.lat + 3000, r.lng)>>,
     <<Water(r.lat + 9000, r.lng), Water(r.lat + 3000, r.lng + 4000)>>}

ScoreElements(r) ==
    {Copies(f, Forest) \o Copies(m, Farm) \o w \o Copies(b, Building) :
        f \in {0, 10, 20}, m \in {0, 1}, w \in ScoreWaters(r), b \in {0, 5, 60}}

\* Wind speed and humidity of the weather answers.
ScoreWeathers == {<<-5, 0>>, <<0, 20>>, <<10, 55>>, <<13, 100>>, <<40, 55>>}

\* Slope and aspect of the terrain answers.
ScoreTerrains == {<<0, 0>>, <<5, 180>>, <<15, 360>>, <<200, 0>>, <<200, 180>>}

\* The state of analyze when the three sources have answered.
InitScore ==
    /\ now = 0
    /\ CACHE_OSM = EmptyStore
    /\ CACHE_WEATHER = EmptyStore
    /\ CACHE_ELEV = EmptyStore
    /\ pc = "score"
    /\ route = "analyze"
    /\ payload = NoPayload
    /\ req \in ScoreRequests
    /\ elements \in ScoreElements(req)
    /\ \E w \in ScoreWeathers :
           /\ weather = Current(Num(w[1]), Num(22), 1)
           /\ humidity = w[2]
    /\ topo \in {<<t[1], t[2], 120>> : t \in ScoreTerrains}
    /\ item = NoItem
    /\ res = NoResponse
    /\ contacted = NoCalls
    /\ outcome = NoOutcome
    /\ nreq = 1
    /\ fills = {}
    /\ lastSet = EmptyStore
    /\ lastOp = NoOp
    /\ upstream = NoReply
    /\ threads = NoThreads
    /\ suspended = NoThread

NextScore == Respond

SpecScore == InitScore /\ [][NextScore]_vars

Categories == {"flora", "water", "wind", "humidity", "slope", "aspect", "pressure"}

\* C2: the score of a result is in 0..100, and so is each of the seven
\* breakdown categories.
C2_ScoresInRange ==
    (pc = "done" /\ res.status = 200) =>
        /\ 0 <= res.score /\ res.score <= 100
        /\ \A c \in Categories : 0 <= res.breakdown[c] /\ res.breakdown[c] <= 100

\* A result whose flora category was cut to 100 (100 flora points give
\* log1p(100) * 25 = 115), whose water category was cut to 100 (110 at
\* distance 0) and whose pressure category was raised to 0.
C2_Witness ==
    /\ pc = "done"
    /\ res.status = 200
    /\ SumFloraPoints(elements) = 100
    /\ res.breakdown.flora = 100
    /\ res.details.d_water = 0
    /\ res.breakdown.water = 100
    /\ res.details.b_count = 60 /\ req.radius = 250
    /\ res.breakdown.pressure = 0

\* The scenario of C6: lat 41.0, lng 29.0, radius 2000, ten forest elements
\* and nothing else, wind 10, temperature 22, humidity 55, slope 5, aspect
\* 180, elevation 120; the result has been computed.
C6_Scenario ==
    /\ pc = "done"
    /\ req = [lat |-> 41000000, lng |-> 29000000, radius |-> 2000]
    /\ elements = Copies(10, Forest)
    /\ weather = Current(Num(10), Num(22), 1)
    /\ humidity = 55
    /\ topo = <<5, 180, 120>>

\* C6 (amended): in the scenario the flora score is 98, the water score is
\* the default 10, wind, humidity, slope, aspect and pressure score 100, and
\* the total is 81 (0.30 * 98 + 0.20 * 10 + 0.10 * 500 = 81.4).
C6_ScenarioScores81 ==
    C6_Scenario =>
        /\ res.status = 200
        /\ res.breakdown.flora = 98
        /\ res.breakdown.water = 10
        /\ res.breakdown.wind = 100
        /\ res.breakdown.humidity = 100
        /\ res.breakdown.slope = 100
        /\ res.breakdown.aspect = 100
        /\ res.breakdown.pressure = 100
        /\ res.score = 81

C6_Witness == C6_Scenario /\ res.status = 200 /\ res.details.flora_type = {"Orman"}

\* C6 (as claimed): in the scenario the flora score is about 100, wind,
\* humidity, slope and aspect score 100, and the total is at least 95.
C6_ScenarioScoresHigh90s ==
    C6_Scenario =>
        /\ res.status = 200
        /\ res.breakdown.flora >= 95
        /\ res.breakdown.wind = 100
        /\ res.breakdown.humidity = 100
        /\ res.breakdown.slope = 100
        /\ res.breakdown.aspect = 100
        /\ res.score >= 95

---------------------------------------------------------------------------
(* SpecTopo: calculate_real_topography at several latitudes (the equator,  *)
(* 41 and 60 degrees, 4 micro-degrees from the pole and both poles), for   *)
(* each answer of the elevation service.                                   *)

TopoLats == {0, 41000000, 60000000, 89999996, 90000000, -90000000}

\* Elevation samples, and one that is not a number.  At the equator
\* 119.4434 m next to 120 m is a slope of 0.5 percent, a tie of round().
TopoSamples ==
    {Num(1200000), Num(1207000), Num(-800000), Num(1210000), Num(1256000),
     Num(1194434), NonNumeric}

\* The `elevation` lists of zero to three samples.
TopoBodies ==
    UNION {[1..n -> TopoSamples] : n \in 0..3}

\* A request at one of the latitudes is about to call the elevation service,
\* which holds one of its answers.
InitTopo ==
    /\ now = 0
    /\ CACHE_OSM = EmptyStore
    /\ CACHE_WEATHER = EmptyStore
    /\ CACHE_ELEV = EmptyStore
    /\ pc = "topo"
    /\ route = "analyze"
    /\ payload = NoPayload
    /\ req \in {[lat |-> l, lng |-> 29000000, radius |-> 2000] : l \in TopoLats}
    /\ elements = <<>>
    /\ weather = EmptyCurrent
    /\ humidity = 0
    /\ topo = <<0, 0, 0>>
    /\ item = NoItem
    /\ res = NoResponse
    /\ contacted = NoCalls
    /\ outcome = NoOutcome
    /\ nreq = 1
    /\ fills = {}
    /\ lastSet = EmptyStore
    /\ lastOp = NoOp
    /\ upstream \in Replies(FailureKinds, TopoBodies)
    /\ threads = NoThreads
    /\ suspended = NoThread

CalculateRealTopographyAnswered ==
    \/ CalculateRealTopographyLookup
    \/ CalculateRealTopographyFetch({upstream})
    \/ CalculateRealTopographyItem
    \/ CalculateRealTopographyStore("done")

NextTopo == CalculateRealTopographyAnswered

SpecTopo == InitTopo /\ [][NextTopo]_vars

\* The elevation service answered 200 with three numeric samples.
ThreeSamples ==
    /\ upstream.kind = "ok"
    /\ Len(upstream.body) = 3
    /\ \A i \in 1..3 : upstream.body[i].t = "num"

\* The eastward reference distance is near zero: the request is at a pole.
AtPole == req.lat = 90000000 \/ req.lat = -90000000

\* C5 (amended): the function returns (0, 0, 0) when the service returns
\* fewer than three samples; with three samples and a near-zero reference
\* distance it returns slope 0, aspect 0 and the elevation of the first
\* sample cut to whole metres.
C5_DegenerateTerrain ==
    pc = "done" =>
        /\ (upstream.kind = "ok" /\ Len(upstream.body) < 3) => topo = <<0, 0, 0>>
        /\ (ThreeSamples /\ AtPole) =>
               LET h0 == upstream.body[1].n
               IN  topo = <<0, 0, IF h0 >= 0 THEN h0 \div 10000 ELSE -((-h0) \div 10000)>>

\* Three samples at the north pole, the first one 120.7 m: the result keeps
\* the elevation 120.
C5_Witness ==
    /\ pc = "done"
    /\ ThreeSamples
    /\ req.lat = 90000000
    /\ upstream.body[1].n = 1207000
    /\ topo = <<0, 0, 120>>

\* C5 (as claimed): (0, 0, 0) is returned for fewer than three samples and
\* also for three samples with a near-zero reference distance.
C5_DegenerateTerrainIsZero ==
    pc = "done" =>
        /\ (upstream.kind = "ok" /\ Len(upstream.body) < 3) => topo = <<0, 0, 0>>
        /\ (ThreeSamples /\ AtPole) => topo = <<0, 0, 0>>

\* C9: every terrain sample returned has its slope in 0..200 and its aspect
\* in 0..359.
C9_SlopeAndAspectInRange ==
    pc = "done" =>
        /\ 0 <= topo[1] /\ topo[1] <= 200
        /\ 0 <= topo[2] /\ topo[2] < 360

---------------------------------------------------------------------------
(* SpecWeather: get_full_weather for each answer of the weather service.    *)
(* Hours are numbered from 1; a current time of 0 is a missing `time`.      *)

HourlyTimes == UNION {[1..n -> {1, 2}] : n \in 0..2}

HourlyHums == UNION {[1..n -> {Num(30), Num(80), Num(150), NonNumeric}] : n \in 0..2}

HourlyBodies ==
    {WeatherBody(Current(Num(10), Num(22), c), ts, hs) :
        c \in 0..3, ts \in HourlyTimes, hs \in HourlyHums}

\* A request is about to call the weather service, which holds one of its
\* answers.
InitWeather ==
    /\ now = 0
    /\ CACHE_OSM = EmptyStore
    /\ CACHE_WEATHER = EmptyStore
    /\ CACHE_ELEV = EmptyStore
    /\ pc = "weather"
    /\ route = "analyze"
    /\ payload = NoPayload
    /\ req = [lat |-> 41000000, lng |-> 29000000, radius |-> 2000]
    /\ elements = <<>>
    /\ weather = EmptyCurrent
    /\ humidity = 0
    /\ topo = <<0, 0, 0>>
    /\ item = NoItem
    /\ res = NoResponse
    /\ contacted = NoCalls
    /\ outcome = NoOutcome
    /\ nreq = 1
    /\ fills = {}
    /\ lastSet = EmptyStore
    /\ lastOp = NoOp
    /\ upstream \in Replies(FailureKinds, HourlyBodies)
    /\ threads = NoThreads
    /\ suspended = NoThread

GetFullWeatherAnswered ==
    \/ GetFullWeatherLookup
    \/ GetFullWeatherFetch({upstream})
    \/ GetFullWeatherItem
    \/ GetFullWeatherStore("done")

NextWeather == GetFullWeatherAnswered

SpecWeather == InitWeather /\ [][NextWeather]_vars

\* The weather service answered 200 with at least one hourly humidity value.
HasHourlyHumidity == upstream.kind = "ok" /\ Len(upstream.body.hums) >= 1

\* The indices of the hourly series whose time is the current timestamp.
Matches == {i \in 1..Len(upstream.body.times) :
               upstream.body.times[i] = upstream.body.current.time}

FirstMatch == CHOOSE i \in Matches : \A j \in Matches : i <= j

\* The current timestamp is present and the two hourly arrays have the same
\* length.
Aligned ==
    /\ upstream.body.current.time # 0
    /\ Len(upstream.body.times) = Len(upstream.body.hums)

\* C8 (amended): for a 200 answer with at least one hourly humidity value,
\* when the timestamp is present and the two arrays have the same length the
\* humidity is that of the first hour equal to the timestamp, or the first
\* hourly value when no hour equals it, cut to 0..100 (and the failure
\* result, an empty current record with humidity 50, when that value is not
\* a number); when the timestamp is missing or the lengths differ the
\* humidity is the default 50.
C8_HumiditySelection ==
    (pc = "done" /\ HasHourlyHumidity) =>
        LET b   == upstream.body
            sel == IF Matches # {} THEN b.hums[FirstMatch] ELSE b.hums[1]
        IN  IF ~Aligned
            THEN humidity = 50 /\ weather = b.current
            ELSE IF sel.t = "num"
            THEN /\ humidity = (IF sel.n > 100 THEN 100 ELSE IF sel.n < 0 THEN 0 ELSE sel.n)
                 /\ weather = b.current
            ELSE humidity = 50 /\ weather = EmptyCurrent

\* The timestamp equals the second hour: the second humidity value, which
\* differs from the first, is returned.
C8_Witness ==
    /\ pc = "done"
    /\ HasHourlyHumidity
    /\ Aligned
    /\ Matches = {2}
    /\ upstream.body.hums[1] = Num(30)
    /\ upstream.body.hums[2] = Num(80)
    /\ humidity = 80

\* C8 (as claimed): for a 200 answer with at least one hourly humidity value
\* (all of them numbers), the humidity is that of the hour equal to the
\* timestamp, and in every other case (no such hour, timestamp missing,
\* arrays of different lengths) the first hourly value, cut to 0..100; it is
\* never the default 50.
C8_FirstValueInEveryOtherCase ==
    (/\ pc = "done"
     /\ HasHourlyHumidity
     /\ \A i \in 1..Len(upstream.body.hums) : upstream.body.hums[i].t = "num")
    => LET b   == upstream.body
           sel == IF Matches # {} /\ FirstMatch <= Len(b.hums)
                  THEN b.hums[FirstMatch] ELSE b.hums[1]
       IN  humidity = (IF sel.n > 100 THEN 100 ELSE sel.n)

---------------------------------------------------------------------------
(* SpecCache: one TTLCache (the land-cover cache, TTL 600 s) under set, get *)
(* and the passing of time.                                                 *)

CacheKeys == {OsmKey(41000000, 29000000, 2000), OsmKey(41000006, 29000000, 2000)}

CacheValues == {<<>>, <<Forest>>}

\* TTLCache.set(key, value) (src/app.py 110-111)
CacheSet ==
    /\ pc = "idle"
    /\ \E k \in CacheKeys, v \in CacheValues :
        /\ CACHE_OSM' = TTLCache_set(CACHE_OSM, OSM_TTL, k, v, now)
        /\ lastSet' = [x \in DOMAIN lastSet \cup {k} |->
                          IF x = k THEN [value |-> v, at |-> now] ELSE lastSet[x]]
        /\ lastOp' = [op |-> "set", key |-> k, found |-> FALSE, value |-> v,
                      at |-> now]
    /\ UNCHANGED <<now, CACHE_WEATHER, CACHE_ELEV, pc, route, payload, req,
                   elements, weather, humidity, topo, item, res, contacted,
                   outcome, nreq, fills, upstream, threads, suspended>>

\* TTLCache.get(key) (src/app.py 101-108); a get that returns None is
\* recorded as not found.
CacheGet ==
    /\ pc = "idle"
    /\ \E k \in CacheKeys :
        /\ CACHE_OSM' = TTLCache_get_store(CACHE_OSM, k, now)
        /\ lastOp' = [op    |-> "get",
                      key   |-> k,
                      found |-> TTLCache_get_found(CACHE_OSM, k, now),
                      value |-> IF TTLCache_get_found(CACHE_OSM, k, now)
                                THEN TTLCache_get_value(CACHE_OSM, k) ELSE <<>>,
                      at    |-> now]
    /\ UNCHANGED <<now, CACHE_WEATHER, CACHE_ELEV, pc, route, payload, req,
                   elements, weather, humidity, topo, item, res, contacted,
                   outcome, nreq, fills, lastSet, upstream, threads, suspended>>

NextCache ==
    \/ CacheSet
    \/ CacheGet
    \/ Tick

SpecCache == Init /\ [][NextCache]_vars

\* C3: a get(k) issued less than the TTL after the most recent set(k, v)
\* returns v; one issued more than the TTL after it reports absent and
\* leaves no entry for k in the store; a get of a key never set reports
\* absent.
C3_GetAfterSet ==
    lastOp.op = "get" =>
        LET k == lastOp.key
        IN  IF k \notin DOMAIN lastSet THEN ~lastOp.found
            ELSE /\ lastOp.at - lastSet[k].at < 600 =>
                        lastOp.found /\ lastOp.value = lastSet[k].value
                 /\ lastOp.at - lastSet[k].at > 600 =>
                        ~lastOp.found /\ k \notin DOMAIN CACHE_OSM

\* A get issued 900 s after the set of its key: absent, and the entry is gone.
C3_Witness ==
    /\ lastOp.op = "get"
    /\ lastOp.key \in DOMAIN lastSet
    /\ lastOp.at - lastSet[lastOp.key].at > 600
    /\ ~lastOp.found
    /\ lastOp.key \notin DOMAIN CACHE_OSM

---------------------------------------------------------------------------
(* SpecConcurrent: TTLCache.get and TTLCache.set of the land-cover cache    *)
(* called from several request threads. Each dictionary lookup, store and   *)
(* removal is one step, and so is each reading of time.time(); the steps of *)
(* different threads interleave freely and the clock may advance between    *)
(* any two of them.                                                         *)

\* Each thread makes at most MaxCalls calls.
MaxCalls == 2

\* History: the item a set stored under a key.
Stored(key, it) ==
    [src |-> "osm", key |-> key, value |-> it.value, expires_at |-> it.expires_at]

\* get, line 102-104: item = self._store.get(key); None when there is none.
GetLookup ==
    \E t \in Threads, k \in CacheKeys :
        /\ threads[t].pc = "idle"
        /\ threads[t].n < MaxCalls
        /\ IF k \in DOMAIN CACHE_OSM
           THEN /\ threads' = [threads EXCEPT ![t] =
                                  [pc |-> "get_expiry", key |-> k, item |-> CACHE_OSM[k],
                                   at |-> now, n |-> threads[t].n + 1]]
                /\ UNCHANGED lastOp
           ELSE /\ threads' = [threads EXCEPT ![t] = IdleThread(threads[t].n + 1)]
                /\ lastOp' = [op |-> "get", key |-> k, found |-> FALSE, value |-> <<>>,
                              at |-> now, expires_at |-> 0, looked |-> now]
        /\ UNCHANGED <<now, CACHE_OSM, CACHE_WEATHER, CACHE_ELEV, pc, route,
                       payload, req, elements, weather, humidity, topo, item,
                       res, contacted, outcome, nreq, fills, lastSet, upstream,
                       suspended>>

\* get, line 105 and 108: time.time() > item.expires_at sends the thread to
\* the removal; otherwise the call returns item.value.
GetExpiry ==
    \E t \in Threads :
        /\ threads[t].pc = "get_expiry"
        /\ IF now > threads[t].item.expires_at
           THEN /\ threads' = [threads EXCEPT ![t].pc = "get_pop"]
                /\ UNCHANGED lastOp
           ELSE /\ threads' = [threads EXCEPT ![t] = IdleThread(threads[t].n)]
                /\ lastOp' = [op |-> "get", key |-> threads[t].key, found |-> TRUE,
                              value |-> threads[t].item.value, at |-> now,
                              expires_at |-> threads[t].item.expires_at,
                              looked |-> threads[t].at]
        /\ UNCHANGED <<now, CACHE_OSM, CACHE_WEATHER, CACHE_ELEV, pc, route,
                       payload, req, elements, weather, humidity, topo, item,
                       res, contacted, outcome, nreq, fills, lastSet, upstream,
                       suspended>>

\* get, line 106-107: self._store.pop(key, None) removes whatever entry the
\* key has now, and the call returns None.
GetPop ==
    \E t \in Threads :
        LET k == threads[t].key
        IN  /\ threads[t].pc = "get_pop"
            /\ CACHE_OSM' = StorePop(CACHE_OSM, k)
            /\ threads' = [threads EXCEPT ![t] = IdleThread(threads[t].n)]
            /\ lastOp' = [op |-> "pop", key |-> k, found |-> k \in DOMAIN CACHE_OSM,
                          value |-> IF k \in DOMAIN CACHE_OSM
                                    THEN CACHE_OSM[k].value ELSE <<>>,
                          at |-> now,
                          expires_at |-> IF k \in DOMAIN CACHE_OSM
                                         THEN CACHE_OSM[k].expires_at ELSE 0,
                          looked |-> threads[t].at]
            /\ UNCHANGED <<now, CACHE_WEATHER, CACHE_ELEV, pc, route, payload,
                           req, elements, weather, humidity, topo, item, res,
                           contacted, outcome, nreq, fills, lastSet, upstream,
                           suspended>>

\* set, line 111, right-hand side: CacheItem(value, time.time() + self.ttl).
SetItem ==
    \E t \in Threads, k \in CacheKeys, v \in CacheValues :
        /\ threads[t].pc = "idle"
        /\ threads[t].n < MaxCalls
        /\ threads' = [threads EXCEPT ![t] =
                          [pc |-> "set_store", key |-> k,
                           item |-> CacheItem(v, now + OSM_TTL),
                           at |-> now, n |-> threads[t].n + 1]]
        /\ UNCHANGED <<now, CACHE_OSM, CACHE_WEATHER, CACHE_ELEV, pc, route,
                       payload, req, elements, weather, humidity, topo, item,
                       res, contacted, outcome, nreq, fills, lastSet, lastOp,
                       upstream, suspended>>

\* set, line 111, assignment: self._store[key] = item.
SetStore ==
    \E t \in Threads :
        LET k == threads[t].key
        IN  /\ threads[t].pc = "set_store"
            /\ CACHE_OSM' = TTLCache_set(CACHE_OSM, OSM_TTL, k, threads[t].item.value,
                                         threads[t].at)
            /\ fills' = fills \cup {Stored(k, threads[t].item)}
            /\ threads' = [threads EXCEPT ![t] = IdleThread(threads[t].n)]
            /\ lastOp' = [op |-> "set", key |-> k, found |-> FALSE,
                          value |-> threads[t].item.value, at |-> now,
                          expires_at |-> threads[t].item.expires_at,
                          looked |-> threads[t].at]
            /\ UNCHANGED <<now, CACHE_WEATHER, CACHE_ELEV, pc, route, payload,
                           req, elements, weather, humidity, topo, item, res,
                           contacted, outcome, nreq, lastSet, upstream,
                           suspended>>

NextConcurrent ==
    \/ GetLookup
    \/ GetExpiry
    \/ GetPop
    \/ SetItem
    \/ SetStore
    \/ Tick

SpecConcurrent == Init /\ [][NextConcurrent]_vars

\* C11: under any interleaving of the steps of get and set from concurrent
\* threads, the removal made by a get never removes an entry that has not
\* expired (such as a fresh one stored by a set between the lookup and the
\* removal of that get), and a value returned by a get is one a set stored
\* under that key, with a TTL that had not elapsed at the lookup.
C11_NoFreshEntryEvicted ==
    /\ (lastOp.op = "pop" /\ lastOp.found) => lastOp.at > lastOp.expires_at
    /\ (lastOp.op = "get" /\ lastOp.found) =>
           \E s \in fills :
               /\ s.key = lastOp.key
               /\ s.value = lastOp.value
               /\ s.expires_at = lastOp.expires_at
               /\ lastOp.looked <= s.expires_at

====
